---- MODULE Spec2Model ----
(***************************************************************************)
(* AXIS: deterministic rule application and relational algebra over JSON.  *)
(*                                                                         *)
(* Part 1 models RuleEngine.apply of legacy/json-shell/axis_rules.py as a  *)
(* state machine: one action per step of the fixpoint loop.  Python        *)
(* objects are modelled with a heap, because the code shares list objects  *)
(* between the rule configuration, the working state, the evaluation       *)
(* context and the returned record.                                        *)
(*                                                                         *)
(* Part 2 models canonicalize and generate_content_hash of axis_core.py on *)
(* JSON values; Part 3 models the semi-join and anti-join of axis_ra.py    *)
(* and their set-structure variants of axis_structures.py; Parts 4 to 6    *)
(* model join, union, difference and the predicate evaluators with select  *)
(* and project; Part 7 models the structure registry,                      *)
(* validate_ra_operation and PipelineEngine.run; Part 8 models aggregate;  *)
(* Part 9 models the construction of a StructureRegistry; Part 10 models   *)
(* template substitution; Part 11 models a pipeline step that names        *)
(* several operators.                                                      *)
(***************************************************************************)
EXTENDS Integers, Sequences, FiniteSets, TLC

VARIABLES
    rules,            \* self.rules: the rule list of the engine's configuration
    rules_hash,       \* self.rules_hash, computed once by __init__
    input_data,       \* the caller's input record (key -> atom or list address)
    heap,             \* list objects: address -> sequence of atoms
    new_state,        \* apply: new_state
    context,          \* apply: context = dict(new_state)
    pending_changes,  \* apply: pending_changes
    total_changes,    \* apply: total_changes
    conflicts,        \* apply: conflicts
    iteration,        \* apply: iteration
    changed,          \* apply: changed
    pc,               \* position of the call: idle, loop, eval, sort, apply, finish, done
    ri,               \* index of the rule the evaluation loop is at (1-based)
    result,           \* what apply returned (or that it raised)
    prev_result,      \* what the previous call on the same engine returned
    runs,             \* number of apply calls started on this engine
    caller_mutated,   \* the caller has appended to a list of the returned record
    input0,           \* history: the input's value when the engine was built
    iter_start,       \* history: value of new_state when the iteration began
    last_set,         \* history: key -> the write that last changed the key in this call
    last_overwrite,   \* history: the last Replace that overwrote a different value
    seen_branches     \* history: branch decisions of this iteration, with the value seen

rvars == <<rules, rules_hash, input_data, heap, new_state, context, pending_changes,
           total_changes, conflicts, iteration, changed, pc, ri, result, prev_result,
           runs, caller_mutated, input0, iter_start, last_set, last_overwrite,
           seen_branches>>

\* Canonicalization and hashing of JSON values (axis_core.py)
VARIABLES
    c_pc,             \* in: values drawn; canon: canonicalized; hashed: hashes taken
    cv, cw,           \* the two values
    cv_canon,         \* canonicalize(cv), or the error it raised
    cv_canon2,        \* canonicalize(canonicalize(cv))
    cw_canon,         \* canonicalize(cw)
    cv_hash, cw_hash  \* generate_content_hash of each

cvars == <<c_pc, cv, cw, cv_canon, cv_canon2, cw_canon, cv_hash, cw_hash>>

\* Semi-join and anti-join of a record collection (axis_ra.py, axis_structures.py)
VARIABLES
    ra_pc,            \* ready: operands chosen; failed: the set structure could not be built
    ra_data,          \* the data operand: one record or a list of records
    ra_field,         \* the field compared
    ra_reference,     \* the reference: inline items, or the data of a set structure
    ra_structure,     \* the AxisSet built from the reference data, once built
    ra_exists,        \* what exists_in returned or raised
    ra_not_exists     \* what not_exists_in returned or raised

avars == <<ra_pc, ra_data, ra_field, ra_reference, ra_structure, ra_exists, ra_not_exists>>

\* One relational query: join, union, difference or aggregate (axis_ra.py),
\* and the structure-backed variants (axis_structures.py)
VARIABLES
    q_pc,             \* ready: operands chosen; failed: the structure could not be built
    q_op,             \* the operation and its operands
    q_structure,      \* the structure built from the right operand, once built
    q_out             \* what each call made so far returned or raised, by label

qvars == <<q_pc, q_op, q_structure, q_out>>

\* Pipeline evaluations on one structure registry (axis_pipes.py,
\* axis_structures.py)
VARIABLES
    registry,         \* engine.registry: the structures by name and _audit_log, or None
    materialized,     \* history: the structures as _materialize_all left them
    ev_entry,         \* evaluation -> how it is started: cli (validate, then run) or api (run)
    ev_step,          \* evaluation -> the one step of its pipeline
    ev_data,          \* evaluation -> input_data
    ev_pos,           \* evaluation -> idle, start, applied (the step is done), done
    ev_current,       \* evaluation -> current_data of run
    ev_used,          \* evaluation -> structures_used of run
    ev_errors,        \* evaluation -> what validate returned
    ev_out,           \* evaluation -> what run returned or raised
    use_out           \* the last direct call on a structure and what it returned

pvars == <<registry, materialized, ev_entry, ev_step, ev_data, ev_pos, ev_current, ev_used,
           ev_errors, ev_out, use_out>>

\* The construction of a StructureRegistry (axis_structures.py)
VARIABLES
    sr_config,        \* config['structures']: the declared structures, in order
    sr_pos,           \* _materialize_all: the index of the structure to build next
    sr_registry,      \* self._registry and self._audit_log so far
    sr_out            \* what StructureRegistry(config) returned or raised

svars == <<sr_config, sr_pos, sr_registry, sr_out>>

\* Template substitution (axis_adapters.py, axis_pipes.py)
VARIABLES
    tp_parts,         \* history: the pieces the template was written from
    tp_template,      \* template: the characters of the string
    tp_data,          \* data: the record the placeholders refer to
    tp_safe,          \* what safe_substitute(template, data) returned
    tp_unified        \* what substitute_template(template, data) returned

tvars == <<tp_parts, tp_template, tp_data, tp_safe, tp_unified>>

\* Runs of a pipeline whose one step names several operators (axis_pipes.py,
\* axis_ra.py); every run is a process of its own
VARIABLES
    ms_step,          \* the step: its operators, each with its configuration
    ms_data,          \* input_data
    ms_registry,      \* engine.registry as the constructor leaves it, or None
    ms_runs           \* what each run so far returned or raised, with the order its
                      \* process iterates the set ra_operations in

mvars == <<ms_step, ms_data, ms_registry, ms_runs>>

vars == <<rvars, cvars, avars, qvars, pvars, svars, tvars, mvars>>

(***************************************************************************)
(* Bounds                                                                  *)
(***************************************************************************)
MaxRules == 3      \* longest rule list drawn
MaxRuns == 2       \* apply calls made on one engine
MaxListLen == 2    \* longest list drawn for canonicalize
MaxRows == 2       \* most records in the data operand of a semi-join
MaxRef == 2        \* most items in the reference of a semi-join

(***************************************************************************)
(* Program constants                                                       *)
(***************************************************************************)
max_iterations == 50

(***************************************************************************)
(* Values.  An atom is a JSON scalar; a list is an address into heap.  No  *)
(* atom of the model is a proper substring of another, so Python's         *)
(* substring test on two strings coincides with equality here.             *)
(***************************************************************************)
None == "None"
PyTrue == "True"
PyFalse == "False"
\* "v1", "v2", ...: the values the rules of the chain append
ChainValue(k) == "v" \o ToString(k)
ChainValues == {ChainValue(k) : k \in 1..(max_iterations - 1)}
Atoms == {None, PyTrue, PyFalse, "hi", "lo", "mid", "a", "b", "seen", "oops"} \cup ChainValues
StrAtoms == Atoms \ {None, PyTrue, PyFalse}
MaxIterMarker == "RuleEngine: max iterations reached (possible loop)"

RuleAddrs == {"Lr"}                      \* list literals of the rule configuration
InputAddrs == {"Li"}                     \* lists of the caller's input
WorkSeq == <<"W1", "W2", "W3", "W4", "W5", "W6">>
WorkAddrs == {WorkSeq[i] : i \in 1..Len(WorkSeq)}
Addrs == RuleAddrs \cup InputAddrs \cup WorkAddrs

Keys == {"errors", "flag", "x"}
KeySeq == <<"errors", "flag", "x">>      \* lexicographic order of the keys
KeyRank(k) == CHOOSE i \in 1..Len(KeySeq) : KeySeq[i] = k

IsList(v) == v \in Addrs

\* The JSON value an atom or address stands for.
View(v, h) == IF IsList(v) THEN [list |-> TRUE, items |-> h[v]]
              ELSE [list |-> FALSE, items |-> <<v>>]
ViewRec(rec, h) == [k \in Keys |-> View(rec[k], h)]

Range(s) == {s[i] : i \in 1..Len(s)}

\* Python truthiness of a value
Truthy(v, h) == IF IsList(v) THEN Len(h[v]) > 0 ELSE v \notin {None, PyFalse}

PyBool(b) == IF b THEN PyTrue ELSE PyFalse

(***************************************************************************)
(* Conditions.  A condition is the restricted AST parse_condition_to_ast   *)
(* returns; a variable name is kept as the sequence of its dot-separated   *)
(* parts.  The conditions of the model use the operators eq, noteq, in,    *)
(* notin, not, and, or.                                                    *)
(***************************************************************************)
VarNode(parts) == [type |-> "var", name |-> parts]
LitNode(v) == [type |-> "literal", value |-> v]
BinNode(op, l, r) == [type |-> "binary_op", op |-> op, left |-> l, right |-> r]
NotNode(e) == [type |-> "unary_op", op |-> "not", operand |-> e]
LogNode(op, vs) == [type |-> "logical", op |-> op, values |-> vs]

\* left in right: list membership, substring of a string, TypeError otherwise
\* (the caller turns the TypeError into False).
PyInRaises(l, r, h) == ~IsList(r) /\ (r \notin StrAtoms \/ l \notin StrAtoms)
PyIn(l, r, h) == IF IsList(r) THEN (~IsList(l) /\ l \in Range(h[r])) ELSE l = r

RECURSIVE evaluate_ast(_, _, _)
evaluate_ast(node, ctx, h) ==
    CASE node.type = "var" ->
           IF Len(node.name) > 1
           THEN None    \* no value of the model is a mapping: the walk leaves the dicts
           ELSE IF node.name[1] \in Keys THEN ctx[node.name[1]] ELSE None
      [] node.type = "literal" -> node.value
      [] node.type = "binary_op" ->
           LET left == evaluate_ast(node.left, ctx, h)
               right == evaluate_ast(node.right, ctx, h)
           IN CASE node.op = "eq" -> PyBool(View(left, h) = View(right, h))
                [] node.op = "noteq" -> PyBool(View(left, h) # View(right, h))
                [] node.op = "in" ->
                     IF PyInRaises(left, right, h) THEN PyFalse
                     ELSE PyBool(PyIn(left, right, h))
                [] node.op = "notin" ->
                     IF PyInRaises(left, right, h) THEN PyFalse
                     ELSE PyBool(~PyIn(left, right, h))
                [] OTHER -> PyFalse
      [] node.type = "unary_op" ->
           LET operand == evaluate_ast(node.operand, ctx, h)
           IN IF node.op = "not" THEN PyBool(~Truthy(operand, h)) ELSE operand
      [] node.type = "logical" ->
           LET values == [i \in 1..Len(node.values) |-> evaluate_ast(node.values[i], ctx, h)]
           IN IF node.op = "and"
              THEN PyBool(\A i \in 1..Len(values) : Truthy(values[i], h))
              ELSE IF node.op = "or"
              THEN PyBool(\E i \in 1..Len(values) : Truthy(values[i], h))
              ELSE PyFalse
      [] OTHER -> PyFalse

(***************************************************************************)
(* Rules.  A rule is a record with optional fields if, then, else and      *)
(* priority, as in the configuration.  A branch is the sequence of its     *)
(* (key, value) items in insertion order; a key is kept as its sequence of *)
(* tokens, so "x+" is <<"x", "+">>.                                        *)
(***************************************************************************)
Item(k, v) == [key |-> k, value |-> v]

\* {"then": {"x": "hi"}, "priority": 5}
R_hi == [then |-> <<Item(<<"x">>, "hi")>>, priority |-> 5]
\* {"then": {"x": "lo"}, "priority": 1}
R_lo == [then |-> <<Item(<<"x">>, "lo")>>, priority |-> 1]
\* {"if": "not flag", "then": {"flag": true, "x": "hi"}, "priority": 5}
R_gate == [if |-> NotNode(VarNode(<<"flag">>)),
           then |-> <<Item(<<"flag">>, PyTrue), Item(<<"x">>, "hi")>>, priority |-> 5]
\* {"if": "flag", "then": {"x": "mid"}, "priority": 3}
R_mid == [if |-> VarNode(<<"flag">>), then |-> <<Item(<<"x">>, "mid")>>, priority |-> 3]
\* {"then": {"x+": "b"}}
R_app == [then |-> <<Item(<<"x", "+">>, "b")>>]
\* {"then": {"x": ["a"]}}
R_list == [then |-> <<Item(<<"x">>, "Lr")>>]
\* {"if": "'b' not in x", "then": {"x+": "b", "errors+": "seen"}, "else": {"flag": true}}
R_obs == [if |-> BinNode("notin", LitNode("b"), VarNode(<<"x">>)),
          then |-> <<Item(<<"x", "+">>, "b"), Item(<<"errors", "+">>, "seen")>>,
          else |-> <<Item(<<"flag">>, PyTrue)>>]
\* {"then": {"errors": "oops"}, "priority": 1}
R_err == [then |-> <<Item(<<"errors">>, "oops")>>, priority |-> 1]

CatalogueSeq == <<R_lo, R_hi, R_gate, R_mid, R_app, R_list, R_obs, R_err>>

\* A chain of max_iterations - 1 rules, each appending one value once the
\* value of the rule before it is in x:
\* {"then": {"x+": "v1"}}, {"if": "'v1' in x", "then": {"x+": "v2"}}, ...
R_chain(k) ==
    IF k = 1 THEN [then |-> <<Item(<<"x", "+">>, ChainValue(1))>>]
    ELSE [if |-> BinNode("in", LitNode(ChainValue(k - 1)), VarNode(<<"x">>)),
          then |-> <<Item(<<"x", "+">>, ChainValue(k))>>]
ChainRules == [k \in 1..(max_iterations - 1) |-> R_chain(k)]

\* The rule lists drawn: up to MaxRules distinct rules of the catalogue, in the
\* catalogue's order or in the reverse order.
RECURSIVE Pick(_)
Pick(S) == IF S = {} THEN <<>>
           ELSE LET m == CHOOSE i \in S : \A j \in S : i <= j
                IN <<CatalogueSeq[m]>> \o Pick(S \ {m})
Reverse(s) == [i \in 1..Len(s) |-> s[Len(s) + 1 - i]]
RuleLists == LET picks == {Pick(S) : S \in {T \in SUBSET (1..Len(CatalogueSeq)) :
                                               Cardinality(T) \in 1..MaxRules}}
             IN picks \cup {Reverse(s) : s \in picks} \cup {ChainRules}

\* Inputs: {}, {"x": "lo"}, {"x": ["a"]}, {"flag": true}
EmptyRec == [k \in Keys |-> None]
Inputs == {EmptyRec, [EmptyRec EXCEPT !["x"] = "lo"], [EmptyRec EXCEPT !["x"] = "Li"],
           [EmptyRec EXCEPT !["flag"] = PyTrue]}
InitHeap == [a \in Addrs |-> IF a \in RuleAddrs \cup InputAddrs THEN <<"a">> ELSE <<>>]

(***************************************************************************)
(* Objects.  A fresh list gets the first working address that neither the  *)
(* working state nor the context refers to; addresses nothing refers to    *)
(* are cleared, so that garbage does not distinguish states.               *)
(***************************************************************************)
RefsOf(rec) == {rec[k] : k \in Keys} \cap WorkAddrs
Alloc(live) == WorkSeq[CHOOSE i \in 1..Len(WorkSeq) :
                         /\ WorkSeq[i] \notin live
                         /\ \A j \in 1..(i - 1) : WorkSeq[j] \in live]
Collect(h, live) == [a \in Addrs |-> IF a \in WorkAddrs \ live THEN <<>> ELSE h[a]]

\* json.loads(json.dumps(input_data)): every list of the record is rebuilt.
RECURSIVE CopyKeys(_, _, _, _)
CopyKeys(i, src, st, h) ==
    IF i > Len(KeySeq) THEN [st |-> st, h |-> h]
    ELSE LET k == KeySeq[i]
             v == src[k]
             a == Alloc(RefsOf(st))
         IN IF IsList(v)
            THEN CopyKeys(i + 1, src, [st EXCEPT ![k] = a], [h EXCEPT ![a] = h[v]])
            ELSE CopyKeys(i + 1, src, [st EXCEPT ![k] = v], h)

\* A copy that shares the lists of the record it copies (dict(input_data)).
shallow_copy(rec, h) == [st |-> rec, h |-> h]

json_roundtrip(rec, h) == CopyKeys(1, rec, EmptyRec, h)

\* new_state.setdefault('errors', [])
setdefault_errors(c) ==
    IF c.st["errors"] # None THEN c
    ELSE LET a == Alloc(RefsOf(c.st))
         IN [st |-> [c.st EXCEPT !["errors"] = a], h |-> [c.h EXCEPT ![a] = <<>>]]

(***************************************************************************)
(* Canonical form and hashes.  canonicalize turns every int, and so every  *)
(* bool, into a float; sha3_256_hex is modelled as an injective tag.       *)
(***************************************************************************)
canonicalize_atom(a) == IF a = PyTrue THEN "1.0" ELSE IF a = PyFalse THEN "0.0" ELSE a
canonicalize_view(w) == [list |-> w.list,
                         items |-> [i \in 1..Len(w.items) |-> canonicalize_atom(w.items[i])]]
canonicalize_rec(rv) == [k \in Keys |-> canonicalize_view(rv[k])]
sha3_256_hex(s) == [sha3 |-> s]
record_hash(rec, h) == sha3_256_hex(canonicalize_rec(ViewRec(rec, h)))

BranchView(b, h) == [i \in 1..Len(b) |-> [key |-> b[i].key,
                                          value |-> canonicalize_view(View(b[i].value, h))]]
RuleView(r, h) == [f \in DOMAIN r |-> IF f \in {"then", "else"} THEN BranchView(r[f], h)
                                      ELSE r[f]]
\* RuleEngine._generate_rules_hash
generate_rules_hash(rs, h) == sha3_256_hex([i \in 1..Len(rs) |-> RuleView(rs[i], h)])

(***************************************************************************)
(* RuleEngine.apply                                                        *)
(***************************************************************************)
NoWrite == [set |-> FALSE, priority |-> 0]
NoOverwrite == [valid |-> FALSE, key |-> "x", priority |-> 0, setter |-> NoWrite]
NoResult == [status |-> "none"]

\* key.endswith('+') and key[:-1]
endswith_plus(key) == key[Len(key)] = "+"
clean_key(key) == (IF endswith_plus(key) THEN SubSeq(key, 1, Len(key) - 1) ELSE key)[1]

\* The branch the rule takes on a context: 'then' if should_apply else 'else'.
should_apply(rule, ctx, h) ==
    IF "if" \in DOMAIN rule THEN Truthy(evaluate_ast(rule["if"], ctx, h), h) ELSE TRUE
target_branch(rule, ctx, h) == IF should_apply(rule, ctx, h) THEN "then" ELSE "else"

\* The pending changes rule number i (0-based) adds on branch b.
rule_changes(rule, i, b) ==
    IF b \notin DOMAIN rule THEN <<>>
    ELSE [n \in 1..Len(rule[b]) |->
            [key |-> clean_key(rule[b][n].key),
             value |-> rule[b][n].value,
             merge_policy |-> IF endswith_plus(rule[b][n].key) THEN "append" ELSE "replace",
             order |-> i,
             priority |-> IF "priority" \in DOMAIN rule THEN rule["priority"] ELSE 0,
             rule_index |-> i]]

\* pending_changes.sort(key=lambda x: (-x['priority'], x['order'], x['key'])): stable
SortsBefore(a, b) ==
    \/ a.priority > b.priority
    \/ a.priority = b.priority /\ a.order < b.order
    \/ a.priority = b.priority /\ a.order = b.order /\ KeyRank(a.key) < KeyRank(b.key)
InsertSorted(s, c) ==
    LET n == Cardinality({j \in 1..Len(s) : ~SortsBefore(c, s[j])})
    IN SubSeq(s, 1, n) \o <<c>> \o SubSeq(s, n + 1, Len(s))
RECURSIVE sort_changes(_)
sort_changes(s) ==
    IF s = <<>> THEN <<>>
    ELSE InsertSorted(sort_changes(SubSeq(s, 1, Len(s) - 1)), s[Len(s)])

\* prev_priority: the priority of the last entry of total_changes for the key
prev_priority(tc, key) ==
    LET idx == {j \in 1..Len(tc) : tc[j].key = key}
    IN IF idx = {} THEN 0
       ELSE tc[CHOOSE j \in idx : \A m \in idx : m <= j].priority

\* The items an append adds: those of the value not yet in the list, in order.
RECURSIVE append_missing(_, _)
append_missing(lst, vals) ==
    IF vals = <<>> THEN lst
    ELSE append_missing(IF Head(vals) \in Range(lst) THEN lst ELSE Append(lst, Head(vals)),
                        Tail(vals))

\* The body of "for change in pending_changes" for one change, on working
\* state st, heap h and the changes applied so far tc; ctx only keeps its lists
\* alive.
change_effect(change, st, h, ctx, tc) ==
    LET key == change.key
        value == change.value
        priority == change.priority
        old_value == st[key]
        fresh == Alloc(RefsOf(st) \cup RefsOf(ctx))
        \* append: a field that holds no list is reset to a new empty list
        lst == IF IsList(st[key]) THEN st[key] ELSE fresh
        before == IF IsList(st[key]) THEN h[lst] ELSE <<>>
        vals == IF IsList(value) THEN h[value] ELSE <<value>>
        after == append_missing(before, vals)
        differs == View(old_value, h) # View(value, h)
        wins == priority > prev_priority(tc, key)
        is_append == change.merge_policy = "append"
        st1 == IF is_append THEN [st EXCEPT ![key] = lst]
               ELSE IF old_value = None \/ (differs /\ wins) THEN [st EXCEPT ![key] = value]
               ELSE st
        h1 == IF is_append THEN [h EXCEPT ![lst] = after] ELSE h
    IN [st |-> st1,
        h |-> Collect(h1, RefsOf(st1) \cup RefsOf(ctx)),
        wrote |-> IF is_append THEN after # before ELSE old_value = None \/ (differs /\ wins),
        conflict |-> ~is_append /\ old_value # None /\ differs,
        overwrote |-> ~is_append /\ old_value # None /\ differs /\ wins,
        entry |-> [field |-> key, old |-> View(old_value, h), new |-> View(value, h),
                   priority |-> priority, rule |-> change.rule_index],
        moved |-> View(st1[key], h1) # View(st[key], h)]

Apply_Start ==
    /\ pc \in {"idle", "done"}
    /\ runs < MaxRuns
    /\ ~caller_mutated
    /\ LET c == setdefault_errors(json_roundtrip(input_data, Collect(heap, {})))
       IN /\ new_state' = c.st
          /\ heap' = c.h
    /\ context' = EmptyRec
    /\ iteration' = 0
    /\ changed' = TRUE
    /\ total_changes' = <<>>
    /\ conflicts' = <<>>
    /\ pending_changes' = <<>>
    /\ ri' = 1
    /\ pc' = "loop"
    /\ runs' = runs + 1
    /\ prev_result' = result
    /\ result' = NoResult
    /\ iter_start' = [st |-> EmptyRec, h |-> InitHeap]
    /\ last_set' = [k \in Keys |-> NoWrite]
    /\ last_overwrite' = NoOverwrite
    /\ seen_branches' = <<>>
    /\ UNCHANGED <<rules, rules_hash, input_data, caller_mutated, input0>>
    /\ UNCHANGED <<cvars, avars, qvars, pvars, svars, tvars, mvars>>

\* while changed and iteration < max_iterations: ... context = dict(new_state)
Loop_Enter ==
    /\ pc = "loop" \/ (pc = "apply" /\ pending_changes = <<>>)
    /\ changed /\ iteration < max_iterations
    /\ changed' = FALSE
    /\ iteration' = iteration + 1
    /\ context' = new_state
    /\ heap' = Collect(heap, RefsOf(new_state))
    /\ pending_changes' = <<>>
    /\ ri' = 1
    /\ pc' = "eval"
    /\ iter_start' = [st |-> new_state, h |-> heap']
    /\ seen_branches' = <<>>
    /\ UNCHANGED <<rules, rules_hash, input_data, new_state, total_changes, conflicts,
                   result, prev_result, runs, caller_mutated, input0, last_set,
                   last_overwrite>>
    /\ UNCHANGED <<cvars, avars, qvars, pvars, svars, tvars, mvars>>

Loop_Exit ==
    /\ pc = "loop" \/ (pc = "apply" /\ pending_changes = <<>>)
    /\ ~(changed /\ iteration < max_iterations)
    /\ pc' = "finish"
    /\ UNCHANGED <<rules, rules_hash, input_data, heap, new_state, context,
                   pending_changes, total_changes, conflicts, iteration, changed, ri,
                   result, prev_result, runs, caller_mutated, input0, iter_start, last_set,
                   last_overwrite, seen_branches>>
    /\ UNCHANGED <<cvars, avars, qvars, pvars, svars, tvars, mvars>>

\* A single-pass engine: the rule's items are written as soon as its branch is
\* chosen, instead of being queued until every rule has been evaluated.
RECURSIVE eager_writes(_, _)
eager_writes(cs, acc) ==
    IF cs = <<>> THEN acc
    ELSE LET e == change_effect(Head(cs), acc.st, acc.h, context, acc.tc)
         IN eager_writes(Tail(cs),
                         [st |-> e.st, h |-> e.h, ch |-> (acc.ch \/ e.wrote),
                          cf |-> IF e.conflict THEN Append(acc.cf, e.entry) ELSE acc.cf,
                          tc |-> Append(acc.tc, Head(cs))])
EvalRuleEager ==
    /\ pc = "eval"
    /\ ri <= Len(rules)
    /\ LET rule == rules[ri]
           b == target_branch(rule, context, heap)
           acc == eager_writes(rule_changes(rule, ri - 1, b),
                               [st |-> new_state, h |-> heap, ch |-> changed,
                                cf |-> conflicts, tc |-> total_changes])
       IN /\ new_state' = acc.st
          /\ heap' = acc.h
          /\ changed' = acc.ch
          /\ conflicts' = acc.cf
          /\ total_changes' = acc.tc
          /\ seen_branches' = Append(seen_branches, [rule |-> ri, branch |-> b])
    /\ ri' = ri + 1
    /\ UNCHANGED <<rules, rules_hash, input_data, context, pending_changes, iteration, pc,
                   result, prev_result, runs, caller_mutated, input0, iter_start, last_set,
                   last_overwrite>>
    /\ UNCHANGED <<cvars, avars, qvars, pvars, svars, tvars, mvars>>

\* One pass of "for i, rule in enumerate(self.rules)": the rule's branch is
\* chosen on context and its items are queued; nothing is written yet.
EvalRule ==
    /\ pc = "eval"
    /\ ri <= Len(rules)
    /\ LET rule == rules[ri]
           b == target_branch(rule, context, heap)
       IN /\ pending_changes' = pending_changes \o rule_changes(rule, ri - 1, b)
          /\ seen_branches' = Append(seen_branches, [rule |-> ri, branch |-> b])
    /\ ri' = ri + 1
    /\ UNCHANGED <<rules, rules_hash, input_data, heap, new_state, context, total_changes,
                   conflicts, iteration, changed, pc, result, prev_result, runs,
                   caller_mutated, input0, iter_start, last_set, last_overwrite>>
    /\ UNCHANGED <<cvars, avars, qvars, pvars, svars, tvars, mvars>>

SortPending ==
    /\ pc = "eval"
    /\ ri > Len(rules)
    /\ pending_changes' = sort_changes(pending_changes)
    /\ pc' = "apply"
    /\ UNCHANGED <<rules, rules_hash, input_data, heap, new_state, context, total_changes,
                   conflicts, iteration, changed, ri, result, prev_result, runs,
                   caller_mutated, input0, iter_start, last_set, last_overwrite,
                   seen_branches>>
    /\ UNCHANGED <<cvars, avars, qvars, pvars, svars, tvars, mvars>>

\* One pass of "for change in pending_changes".
ApplyChange ==
    /\ pc = "apply"
    /\ pending_changes # <<>>
    /\ LET change == Head(pending_changes)
           e == change_effect(change, new_state, heap, context, total_changes)
       IN /\ new_state' = e.st
          /\ heap' = e.h
          /\ changed' = (changed \/ e.wrote)
          /\ conflicts' = IF e.conflict THEN Append(conflicts, e.entry) ELSE conflicts
          /\ total_changes' = Append(total_changes, change)
          /\ last_set' = IF e.moved
                         THEN [last_set EXCEPT ![change.key] =
                                  [set |-> TRUE, priority |-> change.priority]]
                         ELSE last_set
          /\ last_overwrite' = IF e.overwrote
                               THEN [valid |-> TRUE, key |-> change.key,
                                     priority |-> change.priority,
                                     setter |-> last_set[change.key]]
                               ELSE last_overwrite
    /\ pending_changes' = Tail(pending_changes)
    /\ UNCHANGED <<rules, rules_hash, input_data, context, iteration, pc, ri, result,
                   prev_result, runs, caller_mutated, input0, iter_start, seen_branches>>
    /\ UNCHANGED <<cvars, avars, qvars, pvars, svars, tvars, mvars>>

\* The text of a conflict entry of errors
conflict_message(c) == ToString(<<"Conflict on", c.field, c.old, c.new, c.rule, c.priority>>)

\* Lines 305-326: the marker, the conflict messages, the audit, the return.
\* new_state.setdefault('errors', []).append(...) raises AttributeError when
\* the field holds something that is no list.
Finish ==
    /\ pc = "finish"
    /\ LET at_limit == iteration >= max_iterations
           errs == new_state["errors"]
           \* setdefault gives an absent field a new list
           lst == IF errs = None THEN Alloc(RefsOf(new_state) \cup RefsOf(context)) ELSE errs
           st1 == [new_state EXCEPT !["errors"] = lst]
           appends == at_limit \/ conflicts # <<>>
           raises == appends /\ ~IsList(lst)
           msgs == (IF at_limit THEN <<MaxIterMarker>> ELSE <<>>)
                   \o [i \in 1..Len(conflicts) |-> conflict_message(conflicts[i])]
           h1 == IF appends /\ ~raises THEN [heap EXCEPT ![lst] = heap[lst] \o msgs] ELSE heap
           st2 == IF appends THEN st1 ELSE new_state
       IN /\ new_state' = st2
          /\ heap' = Collect(h1, RefsOf(st2))
          /\ result' = IF raises THEN [status |-> "raised"]
                       ELSE [status |-> "returned",
                             record |-> ViewRec(st2, h1),
                             audit |-> [rules_hash |-> rules_hash,
                                        input_hash |-> record_hash(input_data, heap),
                                        output_hash |-> record_hash(st2, h1),
                                        rules_applied |-> Len(total_changes),
                                        iterations |-> iteration,
                                        conflicts |-> Len(conflicts)]]
    /\ context' = EmptyRec
    /\ pc' = "done"
    /\ UNCHANGED <<rules, rules_hash, input_data, pending_changes, total_changes, conflicts,
                   iteration, changed, ri, prev_result, runs, caller_mutated, input0,
                   iter_start, last_set, last_overwrite, seen_branches>>
    /\ UNCHANGED <<cvars, avars, qvars, pvars, svars, tvars, mvars>>

\* The caller appends to a list of the record apply returned.
CallerMutatesResult ==
    /\ pc = "done"
    /\ result.status = "returned"
    /\ ~caller_mutated
    /\ \E k \in Keys :
         /\ IsList(new_state[k])
         /\ heap' = [heap EXCEPT ![new_state[k]] = Append(@, "oops")]
    /\ caller_mutated' = TRUE
    /\ UNCHANGED <<rules, rules_hash, input_data, new_state, context, pending_changes,
                   total_changes, conflicts, iteration, changed, pc, ri, result, prev_result,
                   runs, input0, iter_start, last_set, last_overwrite, seen_branches>>
    /\ UNCHANGED <<cvars, avars, qvars, pvars, svars, tvars, mvars>>

(***************************************************************************)
(* Part 2: canonicalization and content hashing (axis_core.py).            *)
(*                                                                         *)
(* A JSON value is a tagged record; a mapping keeps its items in insertion *)
(* order, as a Python dict does.  Numbers are integer-valued; a float is   *)
(* finite or not.                                                          *)
(***************************************************************************)
JNull == [t |-> "null"]
JBool(b) == [t |-> "bool", b |-> b]
JInt(n) == [t |-> "int", n |-> n]
JFloat(n) == [t |-> "float", n |-> n, finite |-> TRUE]
JInf == [t |-> "float", n |-> 0, finite |-> FALSE]
JStr(x) == [t |-> "str", s |-> x]
JList(items) == [t |-> "list", items |-> items]
JDict(pairs) == [t |-> "dict", pairs |-> pairs]
Pair(k, v) == [k |-> k, v |-> v]
CanonError == [t |-> "error"]       \* ValueError("Non-finite numbers not allowed")

\* the keys drawn, in lexicographic order
DictKeySeq == <<"a", "b", "id", "key", "left_id", "left_name", "name", "right_id",
               "right_name", "simulated", "source", "x", "z">>
StrRank(k) == CHOOSE i \in 1..Len(DictKeySeq) : DictKeySeq[i] = k

InsertionKeys(d) == [i \in 1..Len(d.pairs) |-> d.pairs[i].k]
Lookup(d, k) == d.pairs[CHOOSE i \in 1..Len(d.pairs) : d.pairs[i].k = k].v

\* An iteration over the keys that keeps the mapping's own order.
unsorted(ks) == ks

\* sorted(obj.keys())
RECURSIVE sorted(_)
sorted(ks) ==
    IF ks = <<>> THEN <<>>
    ELSE LET m == CHOOSE i \in 1..Len(ks) : \A j \in 1..Len(ks) : StrRank(ks[i]) <= StrRank(ks[j])
         IN <<ks[m]>> \o sorted(SubSeq(ks, 1, m - 1) \o SubSeq(ks, m + 1, Len(ks)))

RECURSIVE canonicalize(_)
canonicalize(obj) ==
    CASE obj.t = "dict" ->
           LET ks == sorted(InsertionKeys(obj))
               vs == [i \in 1..Len(ks) |-> canonicalize(Lookup(obj, ks[i]))]
           IN IF \E i \in 1..Len(vs) : vs[i] = CanonError THEN CanonError
              ELSE JDict([i \in 1..Len(ks) |-> Pair(ks[i], vs[i])])
      [] obj.t = "list" ->
           LET vs == [i \in 1..Len(obj.items) |-> canonicalize(obj.items[i])]
           IN IF \E i \in 1..Len(vs) : vs[i] = CanonError THEN CanonError
              ELSE JList(vs)
      [] obj.t = "int" -> JFloat(obj.n)
      [] obj.t = "bool" -> JFloat(IF obj.b THEN 1 ELSE 0)    \* a bool is an int in Python
      [] obj.t = "float" -> IF obj.finite THEN obj ELSE CanonError
      [] OTHER -> obj

\* json.dumps(value, sort_keys=True, separators=(item_sep, key_sep)) as text
RECURSIVE JoinText(_, _)
JoinText(parts, sep) ==
    IF parts = <<>> THEN ""
    ELSE IF Len(parts) = 1 THEN parts[1]
    ELSE parts[1] \o sep \o JoinText(Tail(parts), sep)
Quoted(x) == "\"" \o x \o "\""
RECURSIVE json_dumps_sep(_, _, _)
json_dumps_sep(v, item_sep, key_sep) ==
    CASE v.t = "dict" ->
           LET ks == sorted(InsertionKeys(v))
           IN "{" \o JoinText([i \in 1..Len(ks) |->
                                 Quoted(ks[i]) \o key_sep
                                    \o json_dumps_sep(Lookup(v, ks[i]), item_sep, key_sep)],
                              item_sep)
                  \o "}"
      [] v.t = "list" ->
           "[" \o JoinText([i \in 1..Len(v.items) |->
                              json_dumps_sep(v.items[i], item_sep, key_sep)], item_sep) \o "]"
      [] v.t = "int" -> ToString(v.n)
      [] v.t = "float" -> IF v.finite THEN ToString(v.n) \o ".0" ELSE "Infinity"
      [] v.t = "bool" -> IF v.b THEN "true" ELSE "false"
      [] v.t = "str" -> Quoted(v.s)
      [] OTHER -> "null"
\* compact separators, as generate_content_hash passes them
json_dumps(v) == json_dumps_sep(v, ",", ":")
\* the default separators, as AxisSet uses them
json_dumps_default(v) == json_dumps_sep(v, ", ", ": ")

\* generate_content_hash; sha3_256_hex is injective on the texts of the model
generate_content_hash(obj) ==
    LET canonical == canonicalize(obj)
    IN IF canonical = CanonError THEN CanonError
       ELSE sha3_256_hex(json_dumps(canonical))

\* The values drawn.
Scalars == {JNull, JBool(TRUE), JInt(1), JFloat(1), JInf, JStr("a")}
ListItems == {JInt(1), JBool(TRUE)}
Lists == {JList(s) : s \in UNION {[1..n -> ListItems] : n \in 0..MaxListLen}}
InnerDicts == {JDict(<<>>), JDict(<<Pair("x", JInt(1))>>), JDict(<<Pair("z", JInt(1))>>),
               JDict(<<Pair("x", JInt(2)), Pair("z", JInt(1))>>),
               JDict(<<Pair("z", JInt(1)), Pair("x", JInt(2))>>)}
FieldValues == {JBool(TRUE), JInt(1), JStr("a"), JList(<<JInt(1), JBool(TRUE)>>)}
                 \cup InnerDicts
Dicts == {JDict(<<>>)}
           \cup {JDict(<<Pair(k, v)>>) : k \in {"a", "b"}, v \in FieldValues}
           \cup {JDict(<<Pair(ks[1], v), Pair(ks[2], w)>>) :
                    ks \in {<<"a", "b">>, <<"b", "a">>}, v \in FieldValues, w \in FieldValues}
JsonValues == Scalars \cup Lists \cup Dicts

CanonIdle ==
    /\ c_pc = "idle"
    /\ cv = JNull /\ cw = JNull
    /\ cv_canon = JNull /\ cv_canon2 = JNull /\ cw_canon = JNull
    /\ cv_hash = JNull /\ cw_hash = JNull

CanonInit ==
    /\ c_pc = "in"
    /\ cv \in JsonValues /\ cw \in JsonValues
    /\ cv_canon = JNull /\ cv_canon2 = JNull /\ cw_canon = JNull
    /\ cv_hash = JNull /\ cw_hash = JNull

\* canonicalize applied to both values, and again to the first result
Canonicalize ==
    /\ c_pc = "in"
    /\ cv_canon' = canonicalize(cv)
    /\ cw_canon' = canonicalize(cw)
    /\ cv_canon2' = IF canonicalize(cv) = CanonError THEN CanonError
                    ELSE canonicalize(canonicalize(cv))
    /\ c_pc' = "canon"
    /\ UNCHANGED <<cv, cw, cv_hash, cw_hash>>
    /\ UNCHANGED <<rvars, avars, qvars, pvars, svars, tvars, mvars>>

ContentHash ==
    /\ c_pc = "canon"
    /\ cv_hash' = generate_content_hash(cv)
    /\ cw_hash' = generate_content_hash(cw)
    /\ c_pc' = "hashed"
    /\ UNCHANGED <<cv, cw, cv_canon, cv_canon2, cw_canon>>
    /\ UNCHANGED <<rvars, avars, qvars, pvars, svars, tvars, mvars>>

(***************************************************************************)
(* Part 3: semi-join and anti-join (axis_ra.py, axis_structures.py).       *)
(*                                                                         *)
(* Records and their field values are JSON values as in Part 2.  A call    *)
(* either returns a value or raises; Python raises TypeError when a value  *)
(* that is not hashable (a list, a dict) is added to a set or looked up in *)
(* one.                                                                    *)
(***************************************************************************)
NoCall == [status |-> "none"]
Raised(e) == [status |-> "raised", error |-> e]
Return(v) == [status |-> "ok", value |-> v]

isinstance_dict(v) == v.t = "dict"
Hashable(v) == v.t \notin {"list", "dict"}
HasField(record, field) == field \in Range(InsertionKeys(record))

\* A hashable value as a member of a Python set or a key of a dict: True, 1
\* and 1.0 are one member.
PyKey(v) == CASE v.t = "bool" -> JInt(IF v.b THEN 1 ELSE 0)
              [] v.t = "float" -> IF v.finite THEN JInt(v.n) ELSE v
              [] OTHER -> v

\* The set of reference values both inline operations build first.
ref_values(reference_set, field) ==
    LET added == [i \in 1..Len(reference_set) |->
                    IF isinstance_dict(reference_set[i]) /\ HasField(reference_set[i], field)
                    THEN Lookup(reference_set[i], field)
                    ELSE reference_set[i]]
    IN [raised |-> \E i \in 1..Len(added) : ~Hashable(added[i]),
        values |-> {PyKey(added[i]) : i \in 1..Len(added)}]

\* value in a_set: raises when value is not hashable
RaisesOnLookup(record, field) == HasField(record, field) /\ ~Hashable(Lookup(record, field))

\* RelationalAlgebra.exists_in on inline reference data
exists_in(data, field, reference_set) ==
    LET ref == ref_values(reference_set, field)
        keep(record) == HasField(record, field) /\ PyKey(Lookup(record, field)) \in ref.values
    IN IF ref.raised THEN Raised("TypeError")
       ELSE IF isinstance_dict(data)
       THEN IF RaisesOnLookup(data, field) THEN Raised("TypeError")
            ELSE IF keep(data) THEN Return(data) ELSE Return(JDict(<<>>))
       ELSE IF \E i \in 1..Len(data.items) : RaisesOnLookup(data.items[i], field)
            THEN Raised("TypeError")
            ELSE Return(JList(SelectSeq(data.items, keep)))

\* RelationalAlgebra.not_exists_in on inline reference data
not_exists_in(data, field, reference_set) ==
    LET ref == ref_values(reference_set, field)
        keep(record) == ~HasField(record, field) \/ PyKey(Lookup(record, field)) \notin ref.values
    IN IF ref.raised THEN Raised("TypeError")
       ELSE IF isinstance_dict(data)
       THEN IF RaisesOnLookup(data, field) THEN Raised("TypeError")
            ELSE IF keep(data) THEN Return(data) ELSE Return(JDict(<<>>))
       ELSE IF \E i \in 1..Len(data.items) : RaisesOnLookup(data.items[i], field)
            THEN Raised("TypeError")
            ELSE Return(JList(SelectSeq(data.items, keep)))

\* AxisSet(data, name): the record hashes and the (field, value) index, or the
\* error _build_set raises on an item that is no record or on a value that is
\* not hashable.
NoStructure == [built |-> FALSE]
AxisSet(data, name) ==
    IF \E i \in 1..Len(data) : ~isinstance_dict(data[i])
    THEN Raised("AttributeError")
    ELSE IF \E i \in 1..Len(data) : \E j \in 1..Len(data[i].pairs) : ~Hashable(data[i].pairs[j].v)
    THEN Raised("TypeError")
    ELSE LET hashes == {sha3_256_hex(json_dumps_default(canonicalize(data[i]))) :
                           i \in 1..Len(data)}
         IN [built |-> TRUE,
             type |-> "set",
             name |-> name,
             data |-> data,
             canonical_hashes |-> hashes,
             field_indexes |-> UNION {{<<data[i].pairs[j].k, PyKey(data[i].pairs[j].v)>> :
                                          j \in 1..Len(data[i].pairs)} : i \in 1..Len(data)},
             structure_hash |-> sha3_256_hex([type |-> "set", name |-> name, hashes |-> hashes])]

\* AxisSet.contains_field_value, on a hashable value
contains_field_value(axis_set, field, value) == <<field, PyKey(value)>> \in axis_set.field_indexes

\* [data] if isinstance(data, dict) else data or []
RecordsOf(data) == IF isinstance_dict(data) THEN <<data>> ELSE data.items

\* _exists_in_with_set
exists_in_with_set(data, axis_set, field) ==
    LET records == RecordsOf(data)
        keep(record) == /\ HasField(record, field)
                        /\ contains_field_value(axis_set, field, Lookup(record, field))
    IN IF \E i \in 1..Len(records) : RaisesOnLookup(records[i], field)
       THEN Raised("TypeError")
       ELSE Return(JList(SelectSeq(records, keep)))

\* _not_exists_in_with_set
not_exists_in_with_set(data, axis_set, field) ==
    LET records == RecordsOf(data)
        keep(record) == \/ ~HasField(record, field)
                        \/ ~contains_field_value(axis_set, field, Lookup(record, field))
    IN IF \E i \in 1..Len(records) : RaisesOnLookup(records[i], field)
       THEN Raised("TypeError")
       ELSE Return(JList(SelectSeq(records, keep)))

\* The operands drawn.
RelFields == {"id", "name"}
Eng == JStr("eng")
Ops == JStr("ops")
DataRecords == {JDict(<<Pair("id", Eng), Pair("name", JStr("a"))>>),
                JDict(<<Pair("id", Eng)>>),
                JDict(<<Pair("id", Ops)>>),
                JDict(<<Pair("name", JStr("a"))>>),
                JDict(<<Pair("id", JList(<<Eng>>))>>)}
DataOperands == DataRecords \cup {JDict(<<>>)}
                  \cup {JList(s) : s \in UNION {[1..n -> DataRecords] : n \in 0..MaxRows}}
ReferenceItems == {JDict(<<Pair("id", Eng)>>),
                   JDict(<<Pair("id", Ops), Pair("name", JStr("a"))>>),
                   JDict(<<Pair("name", JStr("a"))>>),
                   Eng}
References == {[kind |-> k, items |-> s] :
                  k \in {"inline", "set"},
                  s \in UNION {[1..n -> ReferenceItems] : n \in 0..MaxRef}}

RelIdle ==
    /\ ra_pc = "idle"
    /\ ra_data = JList(<<>>)
    /\ ra_field = "id"
    /\ ra_reference = [kind |-> "inline", items |-> <<>>]
    /\ ra_structure = NoStructure
    /\ ra_exists = NoCall
    /\ ra_not_exists = NoCall

RelInit ==
    /\ ra_pc = "ready"
    /\ ra_data \in DataOperands
    /\ ra_field \in RelFields
    /\ ra_reference \in References
    /\ ra_structure = NoStructure
    /\ ra_exists = NoCall
    /\ ra_not_exists = NoCall

\* The registry materializes the set structure the operations name.
BuildSet ==
    /\ ra_pc = "ready"
    /\ ra_reference.kind = "set"
    /\ ra_structure = NoStructure
    /\ LET built == AxisSet(ra_reference.items, "ref")
       IN IF "status" \in DOMAIN built
          THEN ra_pc' = "failed" /\ ra_structure' = NoStructure
          ELSE ra_pc' = ra_pc /\ ra_structure' = built
    /\ UNCHANGED <<ra_data, ra_field, ra_reference, ra_exists, ra_not_exists>>
    /\ UNCHANGED <<rvars, cvars, qvars, pvars, svars, tvars, mvars>>

\* exists_in on the inline reference, or on the set structure
ExistsIn ==
    /\ ra_pc = "ready"
    /\ ra_exists = NoCall
    /\ IF ra_reference.kind = "inline"
       THEN ra_exists' = exists_in(ra_data, ra_field, ra_reference.items)
       ELSE /\ ra_structure.built
            /\ ra_exists' = exists_in_with_set(ra_data, ra_structure, ra_field)
    /\ UNCHANGED <<ra_pc, ra_data, ra_field, ra_reference, ra_structure, ra_not_exists>>
    /\ UNCHANGED <<rvars, cvars, qvars, pvars, svars, tvars, mvars>>

\* not_exists_in on the inline reference, or on the set structure
NotExistsIn ==
    /\ ra_pc = "ready"
    /\ ra_not_exists = NoCall
    /\ IF ra_reference.kind = "inline"
       THEN ra_not_exists' = not_exists_in(ra_data, ra_field, ra_reference.items)
       ELSE /\ ra_structure.built
            /\ ra_not_exists' = not_exists_in_with_set(ra_data, ra_structure, ra_field)
    /\ UNCHANGED <<ra_pc, ra_data, ra_field, ra_reference, ra_structure, ra_exists>>
    /\ UNCHANGED <<rvars, cvars, qvars, pvars, svars, tvars, mvars>>

(***************************************************************************)
(* Part 4: join (axis_ra.py) and join on a prebuilt hashmap                *)
(* (axis_structures.py).  A query is a record naming the operation and its *)
(* operands; q_out keeps the outcome of each call under a label.           *)
(***************************************************************************)
\* [data] if isinstance(data, dict) else data or []
normalize_records(data) == IF isinstance_dict(data) THEN <<data>> ELSE data.items

\* {f"{prefix}{k}": v for k, v in record.items()}
Prefixed(prefix, record) ==
    [i \in 1..Len(record.pairs) |-> Pair(prefix \o record.pairs[i].k, record.pairs[i].v)]
left_only(record) == JDict(Prefixed("left_", record))
joined(left_record, right_record) ==
    JDict(Prefixed("left_", left_record) \o Prefixed("right_", right_record))

RECURSIVE Flatten(_)
Flatten(seqs) == IF seqs = <<>> THEN <<>> ELSE Head(seqs) \o Flatten(Tail(seqs))

\* The records one left record contributes, given the right records its
\* on-field value selects.
join_rows(left_record, matching, on_field, join_type) ==
    IF ~HasField(left_record, on_field)
    THEN IF join_type = "left" THEN <<left_only(left_record)>> ELSE <<>>
    ELSE IF matching # <<>>
    THEN [i \in 1..Len(matching) |-> joined(left_record, matching[i])]
    ELSE IF join_type = "left" THEN <<left_only(left_record)>> ELSE <<>>

\* RelationalAlgebra.join: right_index is built first, then the left records
\* are looked up in it; a key that is not hashable raises TypeError.
join(left_data, right_data, on_field, join_type) ==
    LET left_records == normalize_records(left_data)
        right_records == normalize_records(right_data)
        right_index(value) ==
            SelectSeq(right_records,
                      LAMBDA r : HasField(r, on_field) /\ PyKey(Lookup(r, on_field)) = PyKey(value))
    IN IF \E i \in 1..Len(right_records) : RaisesOnLookup(right_records[i], on_field)
       THEN Raised("TypeError")
       ELSE IF \E i \in 1..Len(left_records) : RaisesOnLookup(left_records[i], on_field)
       THEN Raised("TypeError")
       ELSE Return(JList(Flatten([i \in 1..Len(left_records) |->
               join_rows(left_records[i],
                         IF HasField(left_records[i], on_field)
                         THEN right_index(Lookup(left_records[i], on_field)) ELSE <<>>,
                         on_field, join_type)])))

\* AxisHashMap(data, key_field, name): _index holds, per key in insertion
\* order, the records with that key; a key that is not hashable raises.
RECURSIVE FirstKeys(_, _)
FirstKeys(data, key_field) ==
    IF data = <<>> THEN <<>>
    ELSE LET before == FirstKeys(SubSeq(data, 1, Len(data) - 1), key_field)
             last == data[Len(data)]
         IN IF HasField(last, key_field) /\ PyKey(Lookup(last, key_field)) \notin Range(before)
            THEN Append(before, PyKey(Lookup(last, key_field))) ELSE before
AxisHashMap(data, key_field, name) ==
    IF \E i \in 1..Len(data) : RaisesOnLookup(data[i], key_field)
    THEN Raised("TypeError")
    ELSE LET keys == FirstKeys(data, key_field)
         IN [built |-> TRUE,
             type |-> "hashmap",
             name |-> name,
             key_field |-> key_field,
             data |-> data,
             index |-> [i \in 1..Len(keys) |->
                          [key |-> keys[i],
                           records |-> SelectSeq(data, LAMBDA r : /\ HasField(r, key_field)
                                                                 /\ PyKey(Lookup(r, key_field)) = keys[i])]],
             structure_hash |-> sha3_256_hex([type |-> "hashmap", key_field |-> key_field,
                                              data |-> canonicalize(JList(data)),
                                              name |-> name])]

\* AxisHashMap.get: self._index.get(key, []), on a hashable key
hashmap_get(hashmap, key) ==
    IF \E i \in 1..Len(hashmap.index) : hashmap.index[i].key = PyKey(key)
    THEN hashmap.index[CHOOSE i \in 1..Len(hashmap.index) :
                          hashmap.index[i].key = PyKey(key)].records
    ELSE <<>>

\* _join_with_hashmap
join_with_hashmap(data, hashmap, join_config) ==
    LET records == normalize_records(data)
        on_field == join_config.on
        join_type == join_config.type
        raises(i) == RaisesOnLookup(records[i], on_field)
    IN IF \E i \in 1..Len(records) : raises(i)
       THEN Raised("TypeError")
       ELSE Return(JList(Flatten([i \in 1..Len(records) |->
               join_rows(records[i],
                         IF HasField(records[i], on_field)
                         THEN hashmap_get(hashmap, Lookup(records[i], on_field)) ELSE <<>>,
                         on_field, join_type)])))

\* The operands drawn.
LeftRecords == {JDict(<<Pair("id", Eng), Pair("name", JStr("a"))>>),
                JDict(<<Pair("id", Ops)>>),
                JDict(<<Pair("name", JStr("a"))>>),
                JDict(<<Pair("id", JList(<<Eng>>))>>)}
RightRecords == {JDict(<<Pair("id", Eng), Pair("name", JStr("a"))>>),
                 JDict(<<Pair("id", Eng)>>),
                 JDict(<<Pair("name", JStr("a"))>>),
                 JDict(<<Pair("id", JList(<<Eng>>))>>)}
LeftOperands == LeftRecords \cup {JDict(<<>>)}
                  \cup {JList(s) : s \in UNION {[1..n -> LeftRecords] : n \in 0..MaxRows}}
RightOperands == {JList(s) : s \in UNION {[1..n -> RightRecords] : n \in 0..MaxRef}}
JoinQueries == {[op |-> "join", left |-> l, right |-> r, on |-> f, type |-> t] :
                   l \in LeftOperands, r \in RightOperands,
                   f \in RelFields, t \in {"inner", "left"}}

QueryIdle ==
    /\ q_pc = "idle"
    /\ q_op = [op |-> "none"]
    /\ q_structure = NoStructure
    /\ q_out = <<>>

JoinInit ==
    /\ q_pc = "ready"
    /\ q_op \in JoinQueries
    /\ q_structure = NoStructure
    /\ q_out = [l \in {"inline", "indexed"} |-> NoCall]

\* The registry materializes the hashmap on the right records, keyed by the
\* on-field.
BuildHashMap ==
    /\ q_pc = "ready"
    /\ q_op.op = "join"
    /\ q_structure = NoStructure
    /\ LET built == AxisHashMap(q_op.right.items, q_op.on, "right")
       IN IF "status" \in DOMAIN built
          THEN q_pc' = "failed" /\ q_structure' = NoStructure
          ELSE q_pc' = q_pc /\ q_structure' = built
    /\ UNCHANGED <<q_op, q_out>>
    /\ UNCHANGED <<rvars, cvars, avars, pvars, svars, tvars, mvars>>

\* join on the inline right records
Join ==
    /\ q_pc \in {"ready", "failed"}
    /\ q_op.op = "join"
    /\ q_out["inline"] = NoCall
    /\ q_out' = [q_out EXCEPT !["inline"] = join(q_op.left, q_op.right, q_op.on, q_op.type)]
    /\ UNCHANGED <<q_pc, q_op, q_structure>>
    /\ UNCHANGED <<rvars, cvars, avars, pvars, svars, tvars, mvars>>

\* join on the prebuilt hashmap
JoinWithHashmap ==
    /\ q_pc = "ready"
    /\ q_op.op = "join"
    /\ q_structure.built
    /\ q_out["indexed"] = NoCall
    /\ q_out' = [q_out EXCEPT !["indexed"] =
                    join_with_hashmap(q_op.left, q_structure, [on |-> q_op.on, type |-> q_op.type])]
    /\ UNCHANGED <<q_pc, q_op, q_structure>>
    /\ UNCHANGED <<rvars, cvars, avars, pvars, svars, tvars, mvars>>

(***************************************************************************)
(* Part 5: union and difference (axis_ra.py) and difference on a prebuilt  *)
(* set (axis_structures.py).  Records are compared by the hash of their    *)
(* canonical text and results are sorted by that text.                     *)
(***************************************************************************)
\* json.dumps(x, sort_keys=True): the text of a value that was not canonicalized
record_text_raw(x) == json_dumps_default(x)
\* json.dumps(canonicalize(x), sort_keys=True)
record_text(x) == json_dumps_default(canonicalize(x))
record_text_hash(x) == sha3_256_hex(record_text(x))

\* Python's order on the texts of the model: a string sorts before a number,
\* "1.0" before "1}", and a digit before a letter.
TextOrder == <<json_dumps_default(JDict(<<Pair("id", Eng), Pair("name", JStr("a"))>>)),
               json_dumps_default(JDict(<<Pair("id", JFloat(1))>>)),
               json_dumps_default(JDict(<<Pair("id", JInt(1))>>)),
               json_dumps_default(JDict(<<Pair("id", JBool(TRUE))>>))>>
TextRank(t) == CHOOSE i \in 1..Len(TextOrder) : TextOrder[i] = t

\* sorted(records, key=lambda x: json.dumps(canonicalize(x), sort_keys=True)),
\* a stable sort
RECURSIVE sorted_by_text(_)
sorted_by_text(records) ==
    IF records = <<>> THEN <<>>
    ELSE LET init == sorted_by_text(SubSeq(records, 1, Len(records) - 1))
             last == records[Len(records)]
             n == Cardinality({i \in 1..Len(init) :
                     TextRank(record_text(init[i])) <= TextRank(record_text(last))})
         IN SubSeq(init, 1, n) \o <<last>> \o SubSeq(init, n + 1, Len(init))

\* the records kept by the seen_hashes loop of union: the first of each hash
RECURSIVE first_of_each_hash(_)
first_of_each_hash(records) ==
    IF records = <<>> THEN <<>>
    ELSE LET init == first_of_each_hash(SubSeq(records, 1, Len(records) - 1))
             last == records[Len(records)]
         IN IF ~isinstance_dict(last) THEN init
            ELSE IF \E i \in 1..Len(init) : record_text_hash(init[i]) = record_text_hash(last)
            THEN init
            ELSE Append(init, last)

\* RelationalAlgebra.union
union(left_data, right_data) ==
    LET left_records == normalize_records(left_data)
        right_records == normalize_records(right_data)
    IN Return(JList(sorted_by_text(first_of_each_hash(left_records \o right_records))))

\* RelationalAlgebra.difference
difference(left_data, right_data) ==
    LET left_records == normalize_records(left_data)
        right_records == normalize_records(right_data)
        right_hashes == {record_text_hash(right_records[i]) :
                            i \in {j \in 1..Len(right_records) : isinstance_dict(right_records[j])}}
        keep(record) == isinstance_dict(record) /\ record_text_hash(record) \notin right_hashes
    IN Return(JList(sorted_by_text(SelectSeq(left_records, keep))))

\* AxisSet.contains
axis_set_contains(axis_set, record) == record_text_hash(record) \in axis_set.canonical_hashes

\* _difference_with_set
difference_with_set(data, axis_set) ==
    LET records == normalize_records(data)
        keep(record) == ~axis_set_contains(axis_set, record)
    IN Return(JList(sorted_by_text(SelectSeq(records, keep))))

\* The operands drawn: the number 1 next to the boolean true, and one record
\* with its keys in two insertion orders.
SetRecords == {JDict(<<Pair("id", JInt(1))>>),
               JDict(<<Pair("id", JBool(TRUE))>>),
               JDict(<<Pair("id", Eng), Pair("name", JStr("a"))>>),
               JDict(<<Pair("name", JStr("a")), Pair("id", Eng)>>)}
SetOperands == {JList(s) : s \in UNION {[1..n -> SetRecords] : n \in 0..MaxRows}}
SetQueries == {[op |-> "sets", A |-> a, B |-> b] : a \in SetOperands, b \in SetOperands}

UnionLabels == {"union_AB", "union_BA", "union_AA", "union_rev"}
DifferenceLabels == {"diff_AB", "diff_AA", "diff_UB"}

SetsInit ==
    /\ q_pc = "ready"
    /\ q_op \in SetQueries
    /\ q_structure = NoStructure
    /\ q_out = [l \in UnionLabels \cup DifferenceLabels \cup {"diff_AB_set"} |-> NoCall]

\* union of the two operands in both orders, of the first with itself, and of
\* the two with their records in reverse order
Union ==
    /\ q_pc = "ready"
    /\ q_op.op = "sets"
    /\ q_out["union_AB"] = NoCall
    /\ q_out' = [q_out EXCEPT !["union_AB"] = union(q_op.A, q_op.B),
                              !["union_BA"] = union(q_op.B, q_op.A),
                              !["union_AA"] = union(q_op.A, q_op.A),
                              !["union_rev"] = union(JList(Reverse(q_op.A.items)),
                                                     JList(Reverse(q_op.B.items)))]
    /\ UNCHANGED <<q_pc, q_op, q_structure>>
    /\ UNCHANGED <<rvars, cvars, avars, pvars, svars, tvars, mvars>>

\* difference of the two operands, of the first with itself, and of their
\* union with the second
Difference ==
    /\ q_pc = "ready"
    /\ q_op.op = "sets"
    /\ q_out["diff_AB"] = NoCall
    /\ q_out' = [q_out EXCEPT !["diff_AB"] = difference(q_op.A, q_op.B),
                              !["diff_AA"] = difference(q_op.A, q_op.A),
                              !["diff_UB"] = difference(union(q_op.A, q_op.B).value, q_op.B)]
    /\ UNCHANGED <<q_pc, q_op, q_structure>>
    /\ UNCHANGED <<rvars, cvars, avars, pvars, svars, tvars, mvars>>

\* The registry materializes the set on the records of the second operand.
BuildRightSet ==
    /\ q_pc = "ready"
    /\ q_op.op = "sets"
    /\ q_structure = NoStructure
    /\ LET built == AxisSet(q_op.B.items, "right")
       IN IF "status" \in DOMAIN built
          THEN q_pc' = "failed" /\ q_structure' = NoStructure
          ELSE q_pc' = q_pc /\ q_structure' = built
    /\ UNCHANGED <<q_op, q_out>>
    /\ UNCHANGED <<rvars, cvars, avars, pvars, svars, tvars, mvars>>

\* difference on the prebuilt set
DifferenceWithSet ==
    /\ q_pc = "ready"
    /\ q_op.op = "sets"
    /\ q_structure.built
    /\ q_out["diff_AB_set"] = NoCall
    /\ q_out' = [q_out EXCEPT !["diff_AB_set"] = difference_with_set(q_op.A, q_structure)]
    /\ UNCHANGED <<q_pc, q_op, q_structure>>
    /\ UNCHANGED <<rvars, cvars, avars, pvars, svars, tvars, mvars>>

(***************************************************************************)
(* Part 6: predicates (axis_core.py).  evaluate_ast works on the restricted *)
(* AST, _eval_ast_node (behind safe_eval_predicate) on Python's own; both   *)
(* compare two values with Python's operators and turn a TypeError into     *)
(* False.                                                                   *)
(***************************************************************************)
PyRaise == [raised |-> TRUE]
PyValue(b) == [raised |-> FALSE, value |-> b]

\* bool is a subclass of int: True is 1 wherever a number is compared
PyIsNumber(v) == v.t \in {"bool", "int", "float"}
PyNumber(v) == IF v.t = "bool" THEN (IF v.b THEN 1 ELSE 0) ELSE v.n

\* left == right
RECURSIVE py_eq(_, _)
py_eq(left, right) ==
    IF PyIsNumber(left) /\ PyIsNumber(right) THEN PyNumber(left) = PyNumber(right)
    ELSE IF left.t = "list" /\ right.t = "list"
    THEN /\ Len(left.items) = Len(right.items)
         /\ \A i \in 1..Len(left.items) : py_eq(left.items[i], right.items[i])
    ELSE left.t = right.t /\ left = right

IntOrder(op, m, n) ==
    CASE op = "lt" -> m < n
      [] op = "lte" -> m <= n
      [] op = "gt" -> m > n
      [] op = "gte" -> m >= n

\* left < right, <=, >, >=: numbers by value, strings and lists
\* lexicographically; any other pair of types raises TypeError
RECURSIVE py_order(_, _, _)
py_order(op, left, right) ==
    IF PyIsNumber(left) /\ PyIsNumber(right)
    THEN PyValue(IntOrder(op, PyNumber(left), PyNumber(right)))
    ELSE IF left.t = "str" /\ right.t = "str"
    THEN PyValue(IntOrder(op, StrRank(left.s), StrRank(right.s)))
    ELSE IF left.t = "list" /\ right.t = "list"
    THEN LET n == IF Len(left.items) < Len(right.items) THEN Len(left.items)
                  ELSE Len(right.items)
             differ == {i \in 1..n : ~py_eq(left.items[i], right.items[i])}
         IN IF differ = {}
            THEN PyValue(IntOrder(op, Len(left.items), Len(right.items)))
            ELSE LET i == CHOOSE i \in differ : \A j \in differ : i <= j
                 IN py_order(op, left.items[i], right.items[i])
    ELSE PyRaise

\* left in right: an item of a list, a substring of a string (the strings of
\* the model are single characters); anything else raises TypeError
py_in(left, right) ==
    IF right.t = "list"
    THEN PyValue(\E i \in 1..Len(right.items) : py_eq(left, right.items[i]))
    ELSE IF right.t = "str" /\ left.t = "str" THEN PyValue(left.s = right.s)
    ELSE PyRaise

\* the try block both evaluators share
compare(op, left, right) ==
    LET outcome ==
          CASE op = "eq" -> PyValue(py_eq(left, right))
            [] op = "noteq" -> PyValue(~py_eq(left, right))
            [] op \in {"gt", "lt", "gte", "lte"} -> py_order(op, left, right)
            [] op = "in" -> py_in(left, right)
            [] op = "notin" -> LET r == py_in(left, right)
                               IN IF r.raised THEN r ELSE PyValue(~r.value)
    IN IF outcome.raised THEN FALSE ELSE outcome.value

\* context.get(name)
context_get(ctx, name) == IF HasField(ctx, name) THEN Lookup(ctx, name) ELSE JNull

\* bool(value): the truthiness of a JSON value
py_truthy(v) ==
    CASE v.t = "null" -> FALSE
      [] v.t = "bool" -> v.b
      [] v.t \in {"int", "float"} -> v.n # 0
      [] v.t = "str" -> v.s # ""
      [] v.t = "list" -> v.items # <<>>
      [] v.t = "dict" -> v.pairs # <<>>
      [] OTHER -> TRUE

ALLOWED_OPS == {"eq", "noteq", "gt", "lt", "gte", "lte", "in", "notin", "and", "or", "not"}

\* What ast.parse(text, mode='eval') gives: the body of the expression, or a
\* SyntaxError.  A Compare holds one operator and one comparator per link of
\* the chain; Call stands for every node neither evaluator handles.
PyName(id) == [type |-> "Name", id |-> id]
PyConstant(value) == [type |-> "Constant", value |-> value]
PyCompare(left, ops, comparators) ==
    [type |-> "Compare", left |-> left, ops |-> ops, comparators |-> comparators]
PyBoolOp(op, values) == [type |-> "BoolOp", op |-> op, values |-> values]
PyUnaryOp(op, operand) == [type |-> "UnaryOp", op |-> op, operand |-> operand]
PyAttribute(value, attr) == [type |-> "Attribute", value |-> value, attr |-> attr]
PyCall == [type |-> "Call"]
PySyntaxError == [type |-> "SyntaxError"]

\* _get_full_name: the dotted name of an attribute chain, kept as the
\* sequence of its parts; <<>> stands for ValueError
RECURSIVE get_full_name(_)
get_full_name(node) ==
    CASE node.type = "Name" -> <<node.id>>
      [] node.type = "Attribute" ->
           LET base == get_full_name(node.value)
           IN IF base = <<>> THEN <<>> ELSE Append(base, node.attr)
      [] OTHER -> <<>>

\* _convert: the restricted AST of a node, or Unsupported where it raises
Unsupported == [type |-> "unsupported"]
RECURSIVE convert(_)
convert(node) ==
    CASE node.type = "BoolOp" ->
           LET values == [i \in 1..Len(node.values) |-> convert(node.values[i])]
           IN IF node.op \notin ALLOWED_OPS \/ Unsupported \in Range(values) THEN Unsupported
              ELSE [type |-> "logical", op |-> node.op, values |-> values]
      [] node.type = "Compare" ->
           IF Len(node.ops) # 1 \/ node.ops[1] \notin ALLOWED_OPS THEN Unsupported
           ELSE LET left == convert(node.left)
                    right == convert(node.comparators[1])
                IN IF left = Unsupported \/ right = Unsupported THEN Unsupported
                   ELSE [type |-> "binary_op", op |-> node.ops[1], left |-> left,
                         right |-> right]
      [] node.type = "UnaryOp" ->
           LET operand == convert(node.operand)
           IN IF node.op \notin ALLOWED_OPS \/ operand = Unsupported THEN Unsupported
              ELSE [type |-> "unary_op", op |-> node.op, operand |-> operand]
      [] node.type = "Name" -> [type |-> "var", name |-> <<node.id>>]
      [] node.type = "Constant" -> [type |-> "literal", value |-> node.value]
      [] node.type = "Attribute" ->
           IF get_full_name(node) = <<>> THEN Unsupported
           ELSE [type |-> "var", name |-> get_full_name(node)]
      [] OTHER -> Unsupported

\* parse_condition_to_ast: every exception becomes a ValueError
parse_condition_to_ast(parsed) ==
    IF parsed = PySyntaxError \/ convert(parsed) = Unsupported THEN Raised("ValueError")
    ELSE Return(convert(parsed))

\* "for part in parts": value.get(part) while the value is a dict, else None
RECURSIVE get_parts(_, _)
get_parts(value, parts) ==
    IF parts = <<>> THEN value
    ELSE IF isinstance_dict(value) THEN get_parts(context_get(value, Head(parts)), Tail(parts))
    ELSE JNull

\* evaluate_ast (axis_core.py); the name of a var is the sequence of the
\* parts of its dotted name
RECURSIVE core_evaluate_ast(_, _)
core_evaluate_ast(ast_node, ctx) ==
    CASE ast_node.type = "var" ->
           IF Len(ast_node.name) > 1 THEN get_parts(ctx, ast_node.name)
           ELSE context_get(ctx, ast_node.name[1])
      [] ast_node.type = "literal" -> ast_node.value
      [] ast_node.type = "binary_op" ->
           JBool(compare(ast_node.op, core_evaluate_ast(ast_node.left, ctx),
                         core_evaluate_ast(ast_node.right, ctx)))
      [] ast_node.type = "unary_op" ->
           IF ast_node.op = "not"
           THEN JBool(~py_truthy(core_evaluate_ast(ast_node.operand, ctx)))
           ELSE core_evaluate_ast(ast_node.operand, ctx)
      [] ast_node.type = "logical" ->
           IF ast_node.op = "and"
           THEN JBool(\A i \in 1..Len(ast_node.values) :
                         py_truthy(core_evaluate_ast(ast_node.values[i], ctx)))
           ELSE IF ast_node.op = "or"
           THEN JBool(\E i \in 1..Len(ast_node.values) :
                         py_truthy(core_evaluate_ast(ast_node.values[i], ctx)))
           ELSE JBool(FALSE)
      [] OTHER -> JBool(FALSE)

\* _eval_ast_node: a Compare is evaluated on its first operator and first
\* comparator; whatever no branch returns for is None
RECURSIVE eval_ast_node(_, _)
eval_ast_node(node, ctx) ==
    CASE node.type = "BoolOp" ->
           IF node.op = "and"
           THEN JBool(\A i \in 1..Len(node.values) : py_truthy(eval_ast_node(node.values[i], ctx)))
           ELSE IF node.op = "or"
           THEN JBool(\E i \in 1..Len(node.values) : py_truthy(eval_ast_node(node.values[i], ctx)))
           ELSE JNull
      [] node.type = "Compare" ->
           IF node.ops[1] \in ALLOWED_OPS \ {"and", "or", "not"}
           THEN JBool(compare(node.ops[1], eval_ast_node(node.left, ctx),
                              eval_ast_node(node.comparators[1], ctx)))
           ELSE JNull
      [] node.type = "UnaryOp" ->
           IF node.op = "not" THEN JBool(~py_truthy(eval_ast_node(node.operand, ctx)))
           ELSE JNull
      [] node.type = "Name" ->
           IF node.id \in {"true", "True"} THEN JBool(TRUE)
           ELSE IF node.id \in {"false", "False"} THEN JBool(FALSE)
           ELSE IF node.id \in {"null", "none", "None"} THEN JNull
           ELSE context_get(ctx, node.id)
      [] node.type = "Attribute" ->
           LET obj == eval_ast_node(node.value, ctx)
           IN IF isinstance_dict(obj) THEN context_get(obj, node.attr) ELSE JNull
      [] node.type = "Constant" -> node.value
      [] OTHER -> JNull

\* safe_eval_predicate: any exception, a SyntaxError of ast.parse among them,
\* gives False
safe_eval_predicate(node, ctx) ==
    IF node = PySyntaxError THEN JBool(FALSE) ELSE eval_ast_node(node, ctx)

\* RelationalAlgebra.select
select(data, predicate) ==
    IF isinstance_dict(data)
    THEN IF py_truthy(safe_eval_predicate(predicate, data)) THEN data ELSE JDict(<<>>)
    ELSE IF data.t = "list"
    THEN JList(SelectSeq(data.items,
                         LAMBDA record : py_truthy(safe_eval_predicate(predicate, record))))
    ELSE data

\* The comparisons drawn: "x <op> y" on a context that holds x and y, or lacks
\* one (a missing field reads as None).
CompareOps == {"eq", "noteq", "gt", "lt", "gte", "lte", "in", "notin"}
Operands == {JNull, JBool(TRUE), JInt(1), JInt(2), JStr("a"), JStr("b"),
             JList(<<JInt(1)>>), JList(<<JStr("a")>>)}
ContextOf(l, r) ==
    JDict((IF l = JNull THEN <<>> ELSE <<Pair("x", l)>>)
            \o (IF r = JNull THEN <<>> ELSE <<Pair("y", r)>>))
CompareQueries == {[op |-> "compare", operator |-> o, context |-> ContextOf(l, r)] :
                      o \in CompareOps, l \in Operands, r \in Operands}

CompareInit ==
    /\ q_pc = "ready"
    /\ q_op \in CompareQueries
    /\ q_structure = NoStructure
    /\ q_out = [l \in {"evaluate_ast", "safe_eval_predicate"} |-> NoCall]

\* evaluate_ast(parse_condition_to_ast("x <op> y"), context)
EvaluateAst ==
    /\ q_pc = "ready"
    /\ q_op.op = "compare"
    /\ q_out["evaluate_ast"] = NoCall
    /\ q_out' = [q_out EXCEPT !["evaluate_ast"] =
                    Return(core_evaluate_ast([type |-> "binary_op", op |-> q_op.operator,
                                              left |-> [type |-> "var", name |-> <<"x">>],
                                              right |-> [type |-> "var", name |-> <<"y">>]],
                                             q_op.context))]
    /\ UNCHANGED <<q_pc, q_op, q_structure>>
    /\ UNCHANGED <<rvars, cvars, avars, pvars, svars, tvars, mvars>>

\* safe_eval_predicate("x <op> y", context)
SafeEvalPredicate ==
    /\ q_pc = "ready"
    /\ q_op.op = "compare"
    /\ q_out["safe_eval_predicate"] = NoCall
    /\ q_out' = [q_out EXCEPT !["safe_eval_predicate"] =
                    Return(safe_eval_predicate(PyCompare(PyName("x"), <<q_op.operator>>,
                                                         <<PyName("y")>>),
                                               q_op.context))]
    /\ UNCHANGED <<q_pc, q_op, q_structure>>
    /\ UNCHANGED <<rvars, cvars, avars, pvars, svars, tvars, mvars>>

\* RelationalAlgebra.project: the attributes the record has, in the order
\* they are asked for
project_record(record, attributes) ==
    LET present == SelectSeq(attributes, LAMBDA attr : HasField(record, attr))
    IN JDict([i \in 1..Len(present) |-> Pair(present[i], Lookup(record, present[i]))])
project(data, attributes) ==
    IF isinstance_dict(data) THEN project_record(data, attributes)
    ELSE IF data.t = "list"
    THEN JList([i \in 1..Len(data.items) |-> project_record(data.items[i], attributes)])
    ELSE data

\* The predicates drawn: comparisons of a field or a dotted field with a
\* literal or a name, a chained comparison, negations, conjunctions and
\* disjunctions of two operands, a call, and text that is no expression.
MaxSelectRows == 2
Subjects == {PyName("x"), PyAttribute(PyName("a"), "x")}
Objects == {PyConstant(JInt(1)), PyConstant(JStr("a")), PyConstant(JBool(TRUE)),
            PyName("true"), PyName("null")}
Comparisons ==
    {PyCompare(l, <<o>>, <<r>>) : l \in Subjects, o \in CompareOps \cup {"is"}, r \in Objects}
Chains == {PyCompare(PyConstant(JInt(1)), <<"lte", o>>, <<PyName("x"), PyConstant(JInt(1))>>) :
              o \in {"lt", "lte"}}
Operand1 == PyCompare(PyName("x"), <<"eq">>, <<PyConstant(JInt(1))>>)
Operand2 == PyAttribute(PyName("a"), "x")
Simple == {PyName("x"), PyName("true"), PyConstant(JInt(1)), Operand1, Operand2, PyCall}
Predicates ==
    Comparisons \cup Chains \cup Simple
        \cup {PyUnaryOp(o, e) : o \in {"not", "usub"}, e \in Simple}
        \cup {PyBoolOp(o, <<l, r>>) : o \in {"and", "or"}, l \in Simple, r \in Simple}
        \cup {PySyntaxError}
SelectRecords ==
    {JDict(<<>>), JDict(<<Pair("a", JDict(<<Pair("x", JInt(1))>>))>>)}
        \cup {JDict(<<Pair("x", v)>>) : v \in {JBool(TRUE), JInt(1), JInt(2), JStr("a")}}
SelectData ==
    SelectRecords \cup {JList(rows) : rows \in UNION {[1..n -> SelectRecords] : n \in 0..MaxSelectRows}}
SelectQueries == {[op |-> "select", predicate |-> p, data |-> d] :
                     p \in Predicates, d \in SelectData}

SelectInit ==
    /\ q_pc = "ready"
    /\ q_op \in SelectQueries
    /\ q_structure = NoStructure
    /\ q_out = [l \in {"select", "condition"} |-> NoCall]

\* RelationalAlgebra.select(data, predicate)
Select ==
    /\ q_pc = "ready"
    /\ q_op.op = "select"
    /\ q_out["select"] = NoCall
    /\ q_out' = [q_out EXCEPT !["select"] = Return(select(q_op.data, q_op.predicate))]
    /\ UNCHANGED <<q_pc, q_op, q_structure>>
    /\ UNCHANGED <<rvars, cvars, avars, pvars, svars, tvars, mvars>>

\* The rule-condition evaluator on each record of the data: the predicate is
\* compiled once by parse_condition_to_ast, then evaluate_ast gives a value
\* per record.
condition_values(compiled, rows) ==
    IF compiled.status = "raised" THEN compiled
    ELSE Return([i \in 1..Len(rows) |-> core_evaluate_ast(compiled.value, rows[i])])
EvaluateCondition ==
    /\ q_pc = "ready"
    /\ q_op.op = "select"
    /\ q_out["condition"] = NoCall
    /\ q_out' = [q_out EXCEPT !["condition"] =
                    condition_values(parse_condition_to_ast(q_op.predicate),
                                     normalize_records(q_op.data))]
    /\ UNCHANGED <<q_pc, q_op, q_structure>>
    /\ UNCHANGED <<rvars, cvars, avars, pvars, svars, tvars, mvars>>

(***************************************************************************)
(* Part 7: the structure registry (axis_structures.py), the validation of  *)
(* an operation (axis_ra.py) and PipelineEngine.run on a pipeline of one   *)
(* relational step (axis_pipes.py).  A step is {op: config}; a key the     *)
(* config lacks is Missing.  Timestamps, and the audit fields computed     *)
(* from the pipeline's own configuration, are left out of the audit.       *)
(***************************************************************************)
Missing == [t |-> "missing"]
NoRegistry == [present |-> FALSE]
PipelineFailed(e) == [status |-> "raised", error |-> "ValueError", cause |-> e]

\* AxisQueue(data, name)
AxisQueue(data, name) ==
    [built |-> TRUE,
     type |-> "queue",
     name |-> name,
     data |-> data,
     queue |-> data,
     structure_hash |-> sha3_256_hex([type |-> "queue", name |-> name,
                                      data |-> canonicalize(JList(data))])]

\* StructureRegistry._materialize_structure, from_data
materialize_structure(name, config) ==
    CASE config.type = "hashmap" -> AxisHashMap(config.data, config.key, name)
      [] config.type = "set" -> AxisSet(config.data, name)
      [] config.type = "queue" -> AxisQueue(config.data, name)

\* StructureRegistry(config): _materialize_all builds every declared
\* structure and logs its creation.
StructureRegistry(structures_config) ==
    LET built == [i \in 1..Len(structures_config) |->
                    materialize_structure(structures_config[i].name, structures_config[i])]
    IN [present |-> TRUE,
        names |-> [i \in 1..Len(structures_config) |-> structures_config[i].name],
        structures |-> [n \in {structures_config[i].name : i \in 1..Len(structures_config)} |->
                          built[CHOOSE i \in 1..Len(structures_config) :
                                   structures_config[i].name = n]],
        audit_log |-> [i \in 1..Len(structures_config) |->
                         [action |-> "structure_created",
                          name |-> structures_config[i].name,
                          type |-> structures_config[i].type,
                          hash |-> built[i].structure_hash]]]

registry_exists(reg, name) == name \in DOMAIN reg.structures
registry_get(reg, name) == reg.structures[name]
list_structures(reg) == reg.names
get_structure_hashes(reg) == [n \in DOMAIN reg.structures |-> reg.structures[n].structure_hash]
get_audit_log(reg) == reg.audit_log

\* StructureRegistry.log_structure_usage
log_structure_usage(reg, name, operation) ==
    [reg EXCEPT !.audit_log = Append(@, [action |-> "structure_used", name |-> name,
                                         operation |-> operation, context |-> ""])]

\* get_structure_audit_info
get_structure_audit_info(reg) ==
    IF ~reg.present THEN <<>>
    ELSE [structures_materialized |-> Len(list_structures(reg)),
          structure_names |-> list_structures(reg),
          structure_hashes |-> get_structure_hashes(reg),
          audit_log |-> get_audit_log(reg)]

\* validate_ra_operation: the errors, in the order they are appended
validate_ra_operation(operation, reg) ==
    LET op_config == operation.config
        name == op_config.using.s
        structure == registry_get(reg, name)
        join_using ==
            IF ~reg.present THEN <<"Join with 'using' requires structure registry">>
            ELSE IF ~registry_exists(reg, name) THEN <<"Join references unknown structure">>
            ELSE IF structure.type # "hashmap" THEN <<"Join requires hashmap">>
            ELSE IF op_config.on # Missing /\ op_config.on.s # structure.key_field
            THEN <<"Join key mismatch">>
            ELSE <<>>
        join_errors ==
            (IF op_config.using # Missing THEN join_using
             ELSE IF op_config.with = Missing
             THEN <<"Join requires either 'with' (inline data) or 'using' (structure)">>
             ELSE <<>>)
            \o (IF op_config.on = Missing THEN <<"Join requires 'on' field specification">>
                ELSE <<>>)
        set_using ==
            IF ~reg.present THEN <<operation.op \o " with 'using' requires structure registry">>
            ELSE IF ~registry_exists(reg, name)
            THEN <<operation.op \o " references unknown structure">>
            ELSE IF structure.type # "set" THEN <<operation.op \o " requires set">>
            ELSE <<>>
        set_errors ==
            (IF op_config.using # Missing THEN set_using
             ELSE IF op_config.with = Missing
             THEN <<operation.op \o " requires either 'with' or 'using'">>
             ELSE <<>>)
            \o (IF op_config.field = Missing
                THEN <<operation.op \o " requires 'field' specification">>
                ELSE <<>>)
    IN IF operation.op = "join" THEN join_errors
       ELSE IF operation.op \in {"exists_in", "not_exists_in", "difference"} THEN set_errors
       ELSE <<>>

\* join_config.get('type', 'inner')
join_type_of(join_config) == IF join_config.type = Missing THEN "inner" ELSE join_config.type.s

\* apply_ra_operation, without a registry
apply_ra_operation(data, operation) ==
    LET config == operation.config
    IN CASE operation.op = "select" -> Return(select(data, config))
         [] operation.op = "project" -> Return(project(data, config))
         [] operation.op = "join" ->
              IF config.with # Missing
              THEN IF config.on = Missing THEN Raised("KeyError: 'on'")
                   ELSE join(data, config.with, config.on.s, join_type_of(config))
              ELSE IF config.using # Missing
              THEN Raised("ValueError: Structure-backed join requires registry context")
              ELSE Raised("ValueError: Join operation requires either 'with' or 'using'")
         [] operation.op \in {"exists_in", "not_exists_in"} ->
              IF config.field = Missing THEN Raised("KeyError: 'field'")
              ELSE IF config.with # Missing
              THEN IF operation.op = "exists_in"
                   THEN exists_in(data, config.field.s, config.with.items)
                   ELSE not_exists_in(data, config.field.s, config.with.items)
              ELSE IF config.using # Missing
              THEN Raised("ValueError: Structure-backed " \o operation.op
                          \o " requires registry context")
              ELSE Raised("ValueError: " \o operation.op
                          \o " operation requires either 'with' or 'using'")
         [] operation.op = "union" ->
              IF config.with # Missing THEN union(data, config.with)
              ELSE Raised("ValueError: Union operation requires 'with' parameter")
         [] operation.op = "difference" ->
              IF config.with # Missing THEN difference(data, config.with)
              ELSE IF config.using # Missing
              THEN Raised("ValueError: Structure-backed difference requires registry context")
              ELSE Raised("ValueError: Difference operation requires either 'with' or 'using'")

\* enhanced_join_with_structure, enhanced_difference_with_structure,
\* enhanced_exists_in_with_structure and enhanced_not_exists_in_with_structure:
\* the registry as the call leaves it, and what the call returned or raised.
\* The usage is logged before the type of the structure is looked at.
enhanced_with_structure(data, operation, reg) ==
    LET config == operation.config
        name == config.using.s
        structure == registry_get(reg, name)
        wanted == IF operation.op = "join" THEN "hashmap" ELSE "set"
        evaluated ==
            CASE operation.op = "join" ->
                   IF config.on = Missing THEN Raised("KeyError: 'on'")
                   ELSE join_with_hashmap(data, structure,
                                          [on |-> config.on.s, type |-> join_type_of(config)])
              [] operation.op = "difference" -> difference_with_set(data, structure)
              [] operation.op = "exists_in" -> exists_in_with_set(data, structure, config.field.s)
              [] operation.op = "not_exists_in" ->
                   not_exists_in_with_set(data, structure, config.field.s)
    IN IF operation.op \in {"exists_in", "not_exists_in"} /\ config.field = Missing
       THEN [registry |-> reg, out |-> Raised("KeyError: 'field'")]
       ELSE IF ~registry_exists(reg, name)
       THEN [registry |-> reg, out |-> Raised("ValueError: Structure not found in registry")]
       ELSE [registry |-> log_structure_usage(reg, name, operation.op),
             out |-> IF structure.type = wanted THEN evaluated
                     ELSE Raised("ValueError: Structure is not a " \o wanted)]

\* _uses_structure
uses_structure(step) == step.config.using # Missing

\* _apply_structure_enhanced_ra: a union is passed on to apply_ra_operation
structure_step_done(done, step, structures_used_log) ==
    [registry |-> done.registry,
     out |-> done.out,
     structures_used |-> IF done.out.status = "ok"
                         THEN Append(structures_used_log, step.config.using.s)
                         ELSE structures_used_log]
apply_structure_enhanced_ra(data, step, reg, structures_used_log) ==
    IF step.op \in {"join", "difference", "exists_in", "not_exists_in"}
    THEN structure_step_done(enhanced_with_structure(data, step, reg), step,
                             structures_used_log)
    ELSE [registry |-> reg, out |-> apply_ra_operation(data, step),
          structures_used |-> structures_used_log]

\* The step of PipelineEngine.run's loop.
run_step(data, step, reg, structures_used) ==
    IF reg.present /\ uses_structure(step)
    THEN apply_structure_enhanced_ra(data, step, reg, structures_used)
    ELSE [registry |-> reg, out |-> apply_ra_operation(data, step),
          structures_used |-> structures_used]

\* What PipelineEngine.run returns after its loop.
run_result(run_input, current_data, reg, structures_used) ==
    LET audit == [input_hash |-> record_text_hash(run_input),
                  output_hash |-> record_text_hash(current_data),
                  steps_executed |-> 1]
        structure_audit == [structure_registry |-> get_structure_audit_info(reg),
                            structures_used |-> structures_used]
    IN [payload |-> IF isinstance_dict(current_data) THEN current_data
                    ELSE JDict(<<Pair("data", current_data)>>),
        _pipe_audit |-> IF reg.present THEN audit @@ structure_audit ELSE audit]

\* AxisQueue.peek and AxisQueue.size
queue_peek(queue, count) ==
    SubSeq(queue.queue, 1, IF count < Len(queue.queue) THEN count ELSE Len(queue.queue))
queue_size(queue) == Len(queue.queue)

\* The pipelines drawn.  Every structure of the registry is declared on the
\* same source data; the hashmap is keyed by id.
Evaluations == {"e1", "e2"}
PipeRecords == {JDict(<<Pair("id", Eng), Pair("name", JStr("a"))>>),
                JDict(<<Pair("id", JInt(1))>>)}
PipeData == {JDict(<<Pair("id", Eng), Pair("name", JStr("a"))>>)}
              \cup {JList(s) : s \in UNION {[1..n -> PipeRecords] : n \in 1..MaxRows}}
RegistrySources == UNION {[1..n -> PipeRecords] : n \in 1..MaxRef}
StructuresConfig(data) ==
    <<[name |-> "users", type |-> "hashmap", key |-> "id", data |-> data],
      [name |-> "blocked", type |-> "set", data |-> data],
      [name |-> "jobs", type |-> "queue", data |-> data]>>
Registries == {StructureRegistry(StructuresConfig(d)) : d \in RegistrySources}
InlineData == JList(<<JDict(<<Pair("id", Eng), Pair("name", JStr("a"))>>)>>)
UsingNames == {JStr("users"), JStr("blocked"), JStr("jobs"), JStr("nowhere")}
StepConfig(w, u, o, f) == [with |-> w, using |-> u, on |-> o, field |-> f, type |-> Missing]
Steps ==
    {[op |-> "join", config |-> StepConfig(w, u, o, Missing)] :
        w \in {Missing, InlineData}, u \in {Missing} \cup UsingNames,
        o \in {Missing, JStr("id"), JStr("name")}}
    \cup {[op |-> op, config |-> StepConfig(w, u, Missing, f)] :
             op \in {"difference", "exists_in", "not_exists_in"},
             w \in {Missing, InlineData}, u \in {Missing} \cup UsingNames,
             f \in {Missing, JStr("id")}}
    \cup {[op |-> "union", config |-> StepConfig(w, u, Missing, Missing)] :
             w \in {Missing, InlineData}, u \in {Missing} \cup UsingNames}
StructureSteps ==
    {s \in Steps : /\ s.op # "union"
                   /\ s.config.with = Missing
                   /\ s.config.using \in {JStr("users"), JStr("blocked")}
                   /\ s.op = "join" => s.config.on # Missing
                   /\ s.op # "join" => s.config.field # Missing}
NoStep == [op |-> "none"]

PipeIdle ==
    /\ registry = NoRegistry
    /\ materialized = <<>>
    /\ ev_entry = [e \in Evaluations |-> "api"]
    /\ ev_step = [e \in Evaluations |-> NoStep]
    /\ ev_data = [e \in Evaluations |-> JList(<<>>)]
    /\ ev_pos = [e \in Evaluations |-> "idle"]
    /\ ev_current = [e \in Evaluations |-> NoCall]
    /\ ev_used = [e \in Evaluations |-> <<>>]
    /\ ev_errors = [e \in Evaluations |-> NoCall]
    /\ ev_out = [e \in Evaluations |-> NoCall]
    /\ use_out = NoCall

\* One pipeline of one step, with or without a structures section, started
\* from the command line or by a call of run.
ValidateInit ==
    /\ registry \in {NoRegistry} \cup Registries
    /\ materialized = IF registry.present THEN registry.structures ELSE <<>>
    /\ ev_entry \in {[e \in Evaluations |-> x] : x \in {"cli", "api"}}
    /\ ev_step \in {[e \in Evaluations |-> IF e = "e1" THEN s ELSE NoStep] : s \in Steps}
    /\ ev_data \in {[e \in Evaluations |-> IF e = "e1" THEN d ELSE JList(<<>>)] : d \in PipeData}
    /\ ev_pos = [e \in Evaluations |-> IF e = "e1" THEN "start" ELSE "idle"]
    /\ ev_current = [e \in Evaluations |-> NoCall]
    /\ ev_used = [e \in Evaluations |-> <<>>]
    /\ ev_errors = [e \in Evaluations |-> NoCall]
    /\ ev_out = [e \in Evaluations |-> NoCall]
    /\ use_out = NoCall

\* Two runs of one engine, whose pipeline is one structure-backed step, each
\* on its own input.
SharedInit ==
    /\ registry \in Registries
    /\ materialized = registry.structures
    /\ ev_entry = [e \in Evaluations |-> "api"]
    /\ ev_step \in {[e \in Evaluations |-> s] : s \in StructureSteps}
    /\ ev_data \in [Evaluations -> PipeData]
    /\ ev_pos = [e \in Evaluations |-> "start"]
    /\ ev_current = [e \in Evaluations |-> NoCall]
    /\ ev_used = [e \in Evaluations |-> <<>>]
    /\ ev_errors = [e \in Evaluations |-> NoCall]
    /\ ev_out = [e \in Evaluations |-> NoCall]
    /\ use_out = NoCall

\* One evaluation of a structure-backed step, next to direct calls on the
\* structures of the registry.
UseInit ==
    /\ registry \in Registries
    /\ materialized = registry.structures
    /\ ev_entry = [e \in Evaluations |-> "api"]
    /\ ev_step \in {[e \in Evaluations |-> IF e = "e1" THEN s ELSE NoStep] : s \in StructureSteps}
    /\ ev_data \in {[e \in Evaluations |-> IF e = "e1" THEN d ELSE JList(<<>>)] : d \in PipeData}
    /\ ev_pos = [e \in Evaluations |-> IF e = "e1" THEN "start" ELSE "idle"]
    /\ ev_current = [e \in Evaluations |-> NoCall]
    /\ ev_used = [e \in Evaluations |-> <<>>]
    /\ ev_errors = [e \in Evaluations |-> NoCall]
    /\ ev_out = [e \in Evaluations |-> NoCall]
    /\ use_out = NoCall

\* PipelineEngine.validate on the one step
Validate(e) ==
    /\ ev_pos[e] = "start"
    /\ ev_errors[e] = NoCall
    /\ ev_errors' = [ev_errors EXCEPT ![e] = Return(validate_ra_operation(ev_step[e], registry))]
    /\ UNCHANGED <<registry, materialized, ev_entry, ev_step, ev_data, ev_pos, ev_current,
                   ev_used, ev_out, use_out>>
    /\ UNCHANGED <<rvars, cvars, avars, qvars, svars, tvars, mvars>>

\* cli: validation errors end the command before run is called
CliExit(e) ==
    /\ ev_pos[e] = "start"
    /\ ev_entry[e] = "cli"
    /\ ev_errors[e] # NoCall
    /\ ev_errors[e].value # <<>>
    /\ ev_pos' = [ev_pos EXCEPT ![e] = "done"]
    /\ UNCHANGED <<registry, materialized, ev_entry, ev_step, ev_data, ev_current, ev_used,
                   ev_errors, ev_out, use_out>>
    /\ UNCHANGED <<rvars, cvars, avars, qvars, svars, tvars, mvars>>

\* PipelineEngine.run, up to the end of its loop: the step is applied, and an
\* exception ends the call with ValueError("Pipeline step 0 failed: ...").
StepDone(e, done) ==
    /\ registry' = done.registry
    /\ ev_used' = [ev_used EXCEPT ![e] = done.structures_used]
    /\ IF done.out.status = "raised"
       THEN /\ ev_out' = [ev_out EXCEPT ![e] = PipelineFailed(done.out.error)]
            /\ ev_current' = ev_current
            /\ ev_pos' = [ev_pos EXCEPT ![e] = "done"]
       ELSE /\ ev_out' = ev_out
            /\ ev_current' = [ev_current EXCEPT ![e] = done.out]
            /\ ev_pos' = [ev_pos EXCEPT ![e] = "applied"]
RunStep(e) ==
    /\ ev_pos[e] = "start"
    /\ ev_entry[e] = "cli" => (ev_errors[e] # NoCall /\ ev_errors[e].value = <<>>)
    /\ StepDone(e, run_step(ev_data[e], ev_step[e], registry, ev_used[e]))
    /\ UNCHANGED <<materialized, ev_entry, ev_step, ev_data, ev_errors, use_out>>
    /\ UNCHANGED <<rvars, cvars, avars, qvars, svars, tvars, mvars>>

\* PipelineEngine.run, after its loop: the audit is built and returned.
RunReturn(e) ==
    /\ ev_pos[e] = "applied"
    /\ ev_out' = [ev_out EXCEPT ![e] =
                    Return(run_result(ev_data[e], ev_current[e].value, registry, ev_used[e]))]
    /\ ev_pos' = [ev_pos EXCEPT ![e] = "done"]
    /\ UNCHANGED <<registry, materialized, ev_entry, ev_step, ev_data, ev_current, ev_used,
                   ev_errors, use_out>>
    /\ UNCHANGED <<rvars, cvars, avars, qvars, svars, tvars, mvars>>

\* Direct calls on the structures of the registry.
UseKeys == {Eng, JInt(1), JStr("a")}
Used(call, value) == [status |-> "ok", call |-> call, value |-> value]
\* use_out holds another call, or another value
Other(call, value) ==
    IF use_out.status = "none" THEN TRUE
    ELSE IF use_out.call # call THEN TRUE
    ELSE use_out.value # value
UseFrame ==
    /\ UNCHANGED <<registry, materialized, ev_entry, ev_step, ev_data, ev_pos, ev_current,
                   ev_used, ev_errors, ev_out>>
    /\ UNCHANGED <<rvars, cvars, avars, qvars, svars, tvars, mvars>>

\* registry.get("users").get(key)
HashMapGet ==
    /\ registry.present
    /\ \E key \in UseKeys :
          /\ Other("get", hashmap_get(registry_get(registry, "users"), key))
          /\ use_out' = Used("get", hashmap_get(registry_get(registry, "users"), key))
    /\ UseFrame

\* registry.get("blocked").contains(record)
SetContains ==
    /\ registry.present
    /\ \E record \in PipeRecords :
          /\ Other("contains", axis_set_contains(registry_get(registry, "blocked"), record))
          /\ use_out' = Used("contains",
                             axis_set_contains(registry_get(registry, "blocked"), record))
    /\ UseFrame

\* registry.get("blocked").contains_field_value(field, value)
SetContainsFieldValue ==
    /\ registry.present
    /\ \E field \in RelFields, value \in UseKeys :
          LET found == contains_field_value(registry_get(registry, "blocked"), field, value)
          IN /\ Other("contains_field_value", found)
             /\ use_out' = Used("contains_field_value", found)
    /\ UseFrame

\* a peek that takes the items off the queue
QueuePopleft ==
    /\ registry.present
    /\ \E count \in 1..2 :
          LET jobs == registry_get(registry, "jobs")
              taken == queue_peek(jobs, count)
          IN /\ taken # <<>>
             /\ use_out' = Used("peek", taken)
             /\ registry' = [registry EXCEPT !.structures["jobs"].queue =
                                SubSeq(jobs.queue, Len(taken) + 1, Len(jobs.queue))]
    /\ UNCHANGED <<materialized, ev_entry, ev_step, ev_data, ev_pos, ev_current, ev_used,
                   ev_errors, ev_out>>
    /\ UNCHANGED <<rvars, cvars, avars, qvars, svars, tvars, mvars>>

\* registry.get("jobs").peek(count)
QueuePeek ==
    /\ registry.present
    /\ \E count \in 1..2 :
          /\ Other("peek", queue_peek(registry_get(registry, "jobs"), count))
          /\ use_out' = Used("peek", queue_peek(registry_get(registry, "jobs"), count))
    /\ UseFrame

\* registry.get("jobs").size()
QueueSize ==
    /\ registry.present
    /\ Other("size", queue_size(registry_get(registry, "jobs")))
    /\ use_out' = Used("size", queue_size(registry_get(registry, "jobs")))
    /\ UseFrame

(***************************************************************************)
(* Part 8: aggregate (axis_ra.py).  The average of integers is kept as the *)
(* quotient sum / count.                                                   *)
(***************************************************************************)
JQuot(num, den) == [t |-> "float", num |-> num, den |-> den]

RECURSIVE SumNumbers(_)
SumNumbers(values) ==
    IF values = <<>> THEN 0 ELSE PyNumber(Head(values)) + SumNumbers(Tail(values))

\* sum(values): 0 + values[0] + ... raises TypeError on a value that is no number
py_sum(values) ==
    IF \E i \in 1..Len(values) : ~PyIsNumber(values[i]) THEN PyRaise
    ELSE IF \E i \in 1..Len(values) : values[i].t = "float"
    THEN PyValue(JFloat(SumNumbers(values)))
    ELSE PyValue(JInt(SumNumbers(values)))

\* sum(values) / len(values)
py_avg(values) ==
    IF py_sum(values).raised THEN PyRaise
    ELSE PyValue(JQuot(py_sum(values).value.n, Len(values)))

\* min(values) and max(values): one value is returned as it is; numbers are
\* compared with numbers and strings with strings, anything else raises
\* TypeError; of equal values the first is returned.
py_extreme(values, least) ==
    LET comparable == \/ \A i \in 1..Len(values) : PyIsNumber(values[i])
                      \/ \A i \in 1..Len(values) : values[i].t = "str"
        rank(v) == IF PyIsNumber(v) THEN PyNumber(v) ELSE StrRank(v.s)
        best(i) == \A j \in 1..Len(values) :
                      IF least THEN rank(values[i]) <= rank(values[j])
                      ELSE rank(values[i]) >= rank(values[j])
        first == CHOOSE i \in 1..Len(values) :
                    best(i) /\ \A j \in 1..(i - 1) : ~best(j)
    IN IF Len(values) = 1 THEN PyValue(values[1])
       ELSE IF ~comparable THEN PyRaise
       ELSE PyValue(values[first])
py_min(values) == py_extreme(values, TRUE)
py_max(values) == py_extreme(values, FALSE)

\* record.get(field)
record_get(record, field) == IF HasField(record, field) THEN Lookup(record, field) ELSE JNull

\* the keys of groups, in the order the groups are created
RECURSIVE group_keys(_, _)
group_keys(records, field) ==
    IF records = <<>> THEN <<>>
    ELSE LET before == group_keys(SubSeq(records, 1, Len(records) - 1), field)
             key == record_get(records[Len(records)], field)
         IN IF key \in Range(before) THEN before ELSE Append(before, key)

\* Python's order on the texts of the results: the text of a result starts
\* with its group value, and "a" < "b" < null.
GroupOrder == <<JStr("a"), JStr("b"), JNull>>
GroupRank(key) == CHOOSE i \in 1..Len(GroupOrder) : GroupOrder[i] = key
RECURSIVE sorted_by_group(_, _)
sorted_by_group(results, field) ==
    IF results = <<>> THEN <<>>
    ELSE LET init == sorted_by_group(SubSeq(results, 1, Len(results) - 1), field)
             last == results[Len(results)]
             n == Cardinality({i \in 1..Len(init) :
                     GroupRank(Lookup(init[i], field)) <= GroupRank(Lookup(last, field))})
         IN SubSeq(init, 1, n) \o <<last>> \o SubSeq(init, n + 1, Len(init))

\* RelationalAlgebra.aggregate, grouped by one field
aggregate(data, group_by, operation, target_field) ==
    LET records == normalize_records(data)
        keys == group_keys(records, group_by)
        group_records(key) == SelectSeq(records, LAMBDA r : record_get(r, group_by) = key)
        with_target(key) == SelectSeq(group_records(key), LAMBDA r : HasField(r, target_field))
        values(key) == [i \in 1..Len(with_target(key)) |-> Lookup(with_target(key)[i], target_field)]
        computed(key) ==
            CASE operation = "sum" -> py_sum(values(key))
              [] operation = "avg" -> py_avg(values(key))
              [] operation = "min" -> py_min(values(key))
              [] operation = "max" -> py_max(values(key))
        group_result(key) ==
            IF operation = "count"
            THEN JDict(<<Pair(group_by, key), Pair("count", JInt(Len(group_records(key))))>>)
            ELSE IF values(key) # <<>>
            THEN JDict(<<Pair(group_by, key),
                         Pair(operation \o "_" \o target_field, computed(key).value)>>)
            ELSE JDict(<<Pair(group_by, key)>>)
    IN IF operation # "count" /\ \E i \in 1..Len(keys) :
                                    values(keys[i]) # <<>> /\ computed(keys[i]).raised
       THEN Raised("TypeError")
       ELSE Return(JList(sorted_by_group([i \in 1..Len(keys) |-> group_result(keys[i])], group_by)))

\* The operands drawn: records grouped by a, aggregated on x.
AggregateOps == {"count", "sum", "avg", "min", "max"}
GroupValues == {<<Pair("a", JStr("a"))>>, <<Pair("a", JStr("b"))>>, <<>>}
TargetValues == {<<Pair("x", JInt(1))>>, <<Pair("x", JInt(2))>>, <<Pair("x", JStr("a"))>>,
                 <<Pair("x", JNull)>>, <<>>}
AggregateRecords == {JDict(g \o x) : g \in GroupValues, x \in TargetValues}
AggregateOperands == {JDict(<<Pair("a", JStr("a")), Pair("x", JInt(1))>>)}
                       \cup {JList(s) : s \in UNION {[1..n -> AggregateRecords] : n \in 0..MaxRows}}
AggregateQueries == {[op |-> "aggregate", data |-> d, group_by |-> "a", operation |-> o,
                      target_field |-> "x"] : d \in AggregateOperands, o \in AggregateOps}

AggregateInit ==
    /\ q_pc = "ready"
    /\ q_op \in AggregateQueries
    /\ q_structure = NoStructure
    /\ q_out = [l \in {"aggregate"} |-> NoCall]

\* aggregate on the operand
Aggregate ==
    /\ q_pc = "ready"
    /\ q_op.op = "aggregate"
    /\ q_out["aggregate"] = NoCall
    /\ q_out' = [q_out EXCEPT !["aggregate"] =
                    aggregate(q_op.data, q_op.group_by, q_op.operation, q_op.target_field)]
    /\ UNCHANGED <<q_pc, q_op, q_structure>>
    /\ UNCHANGED <<rvars, cvars, avars, pvars, svars, tvars, mvars>>

(***************************************************************************)
(* Part 9: the construction of a StructureRegistry (axis_structures.py).   *)
(* config['structures'] is the sequence of the declared structures, each   *)
(* with its name; a key a declaration lacks is Missing.  The files a       *)
(* from_file source can name are those of Files.                           *)
(***************************************************************************)
MaxStructures == 2   \* most structures declared in one configuration

\* open(source_path) and json.load on it
Files ==
    [ok_json |-> Return(JList(<<JDict(<<Pair("id", JInt(1))>>)>>)),
     scalar_json |-> Return(JStr("text")),
     bad_json |-> Raised("JSONDecodeError"),
     missing_json |-> Raised("FileNotFoundError")]
json_load_file(path) == Files[path]

\* StructureRegistry._load_from_adapter: the records, and what it adds to
\* the audit log
load_from_adapter(config) ==
    LET command == IF config.adapter = Missing THEN ""
                   ELSE IF config.adapter.command = Missing THEN ""
                   ELSE config.adapter.command.s
    IN IF command = "redis_get"
       THEN [data |-> JList(<<JDict(<<Pair("simulated", JStr("redis_data")),
                                      Pair("key", JStr("default")),
                                      Pair("source", JStr("redis"))>>)>>),
             log |-> <<>>]
       ELSE IF command = "sqlite_query"
       THEN [data |-> JList(<<JDict(<<Pair("simulated", JStr("sqlite_data")),
                                      Pair("source", JStr("sqlite"))>>)>>),
             log |-> <<>>]
       ELSE IF command = "http_get"
       THEN [data |-> JList(<<JDict(<<Pair("simulated", JStr("http_data")),
                                      Pair("source", JStr("http"))>>)>>),
             log |-> <<>>]
       ELSE [data |-> JList(<<>>),
             log |-> <<[action |-> "adapter_unknown", command |-> command]>>]

\* _materialize_structure, "Load source data": what was loaded or raised,
\* and what was added to the audit log
load_source(config) ==
    LET source_type == IF config.materialize = Missing THEN "from_data" ELSE config.materialize.s
    IN CASE source_type = "from_file" ->
              [out |-> IF config.source = Missing THEN Raised("KeyError: 'source'")
                       ELSE json_load_file(config.source.s),
               log |-> <<>>]
         [] source_type = "from_data" ->
              [out |-> Return(IF config.data = Missing THEN JList(<<>>) ELSE config.data),
               log |-> <<>>]
         [] source_type = "from_adapter" ->
              [out |-> Return(load_from_adapter(config).data),
               log |-> load_from_adapter(config).log]
         [] OTHER ->
              [out |-> Raised("ValueError: Unknown materialize type"), log |-> <<>>]

\* _materialize_structure, "Ensure source_data is a list"
as_source_list(source_data) ==
    IF source_data.t = "dict" THEN <<source_data>>
    ELSE IF source_data.t = "list" THEN source_data.items
    ELSE <<>>

\* _materialize_structure, "Create appropriate structure"
create_structure(config, source_data) ==
    LET made ==
            CASE config.type.s = "hashmap" ->
                   IF config.key = Missing THEN Raised("KeyError: 'key'")
                   ELSE AxisHashMap(source_data, config.key.s, config.name)
              [] config.type.s = "set" -> AxisSet(source_data, config.name)
              [] config.type.s = "queue" -> AxisQueue(source_data, config.name)
              [] OTHER -> Raised("ValueError: Unknown structure type")
    IN IF "status" \in DOMAIN made THEN made ELSE Return(made)

\* _materialize_structure: the structure or the exception, and what was
\* added to the audit log
materialize_declared(config) ==
    IF config.type = Missing THEN [out |-> Raised("KeyError: 'type'"), log |-> <<>>]
    ELSE IF load_source(config).out.status = "raised" THEN load_source(config)
    ELSE [out |-> create_structure(config, as_source_list(load_source(config).out.value)),
          log |-> load_source(config).log]

\* raise ValueError(f"Failed to materialize structure '{name}': {e}")
MaterializationFailed(name, e) ==
    [status |-> "raised", error |-> "ValueError", structure |-> name, cause |-> e.error]

EmptyRegistry == [present |-> TRUE, names |-> <<>>, structures |-> <<>>, audit_log |-> <<>>]

\* the body of the loop of _materialize_all
materialize_one(reg, config) ==
    LET made == materialize_declared(config)
    IN IF made.out.status = "raised"
       THEN [registry |-> [reg EXCEPT !.audit_log =
                              @ \o made.log \o <<[action |-> "structure_failed",
                                                  name |-> config.name,
                                                  error |-> made.out.error]>>],
             out |-> MaterializationFailed(config.name, made.out)]
       ELSE [registry |-> [present |-> TRUE,
                           names |-> Append(reg.names, config.name),
                           structures |-> (config.name :> made.out.value) @@ reg.structures,
                           audit_log |-> reg.audit_log \o made.log
                                         \o <<[action |-> "structure_created",
                                               name |-> config.name,
                                               type |-> config.type.s,
                                               hash |-> made.out.value.structure_hash]>>],
             out |-> NoCall]

\* The declarations drawn
StructureNames == <<"a", "b", "c">>
SourceDecl(m, d, s, a) == [materialize |-> m, data |-> d, source |-> s, adapter |-> a]
SourceDecls ==
    {SourceDecl(Missing, JList(<<JDict(<<Pair("id", Eng)>>)>>), Missing, Missing),
     SourceDecl(JStr("from_data"), JDict(<<Pair("id", Eng)>>), Missing, Missing),
     SourceDecl(JStr("from_data"), JStr("oops"), Missing, Missing),
     SourceDecl(JStr("from_db"), JList(<<JDict(<<Pair("id", Eng)>>)>>), Missing, Missing),
     SourceDecl(JStr("from_file"), Missing, Missing, Missing)}
    \cup {SourceDecl(JStr("from_file"), Missing, JStr(f), Missing) : f \in DOMAIN Files}
    \cup {SourceDecl(JStr("from_adapter"), Missing, Missing, [command |-> JStr(c)]) :
             c \in {"redis_get", "nope"}}
TypeDecls ==
    {[type |-> JStr(t), key |-> Missing] : t \in {"set", "queue", "tree"}}
    \cup {[type |-> JStr("hashmap"), key |-> k] : k \in {Missing, JStr("id")}}
    \cup {[type |-> Missing, key |-> Missing]}
Declarations(name) == {[name |-> name] @@ t @@ s : t \in TypeDecls, s \in SourceDecls}
StructureConfigs ==
    UNION {{c \in [1..n -> UNION {Declarations(StructureNames[i]) : i \in 1..n}] :
               \A i \in 1..n : c[i].name = StructureNames[i]} : n \in 1..MaxStructures}

BuildIdle ==
    /\ sr_config = <<>>
    /\ sr_pos = 0
    /\ sr_registry = EmptyRegistry
    /\ sr_out = NoCall

\* StructureRegistry(config), up to the call of _materialize_all
BuildInit ==
    /\ sr_config \in StructureConfigs
    /\ sr_pos = 1
    /\ sr_registry = EmptyRegistry
    /\ sr_out = NoCall

\* _materialize_all: one declared structure is built and registered, or its
\* failure is logged and ends the construction
MaterializeNext ==
    /\ sr_out = NoCall
    /\ sr_pos \in 1..Len(sr_config)
    /\ sr_registry' = materialize_one(sr_registry, sr_config[sr_pos]).registry
    /\ sr_out' = materialize_one(sr_registry, sr_config[sr_pos]).out
    /\ sr_pos' = sr_pos + 1
    /\ UNCHANGED sr_config
    /\ UNCHANGED <<rvars, cvars, avars, qvars, pvars, tvars, mvars>>

\* every declared structure is built: the registry is returned
Constructed ==
    /\ sr_out = NoCall
    /\ sr_pos = Len(sr_config) + 1
    /\ sr_out' = Return(sr_registry)
    /\ UNCHANGED <<sr_config, sr_pos, sr_registry>>
    /\ UNCHANGED <<rvars, cvars, avars, qvars, pvars, tvars, mvars>>

(***************************************************************************)
(* Part 10: template substitution: safe_substitute (axis_adapters.py) and  *)
(* substitute_template (axis_pipes.py).  A template is the sequence of its *)
(* characters; what a call returns is a string.                            *)
(***************************************************************************)
MaxParts == 2   \* most pieces a template is written from

\* f"{{{{UNDEFINED:{var_name}}}}}"
blank_marker(var_name) == ""
undefined_marker(var_name) == "{{UNDEFINED:" \o var_name \o "}}"

\* json.dumps(value, separators=...): keys in the mapping's own order
RECURSIVE json_dumps_plain(_, _, _)
json_dumps_plain(v, item_sep, key_sep) ==
    CASE v.t = "dict" ->
           "{" \o JoinText([i \in 1..Len(v.pairs) |->
                              Quoted(v.pairs[i].k) \o key_sep
                                 \o json_dumps_plain(v.pairs[i].v, item_sep, key_sep)],
                           item_sep)
               \o "}"
      [] v.t = "list" ->
           "[" \o JoinText([i \in 1..Len(v.items) |->
                              json_dumps_plain(v.items[i], item_sep, key_sep)], item_sep) \o "]"
      [] v.t = "int" -> ToString(v.n)
      [] v.t = "bool" -> IF v.b THEN "true" ELSE "false"
      [] v.t = "str" -> Quoted(v.s)
      [] OTHER -> "null"

\* str(value), on a value that is no dict and no list
py_str(v) ==
    CASE v.t = "str" -> v.s
      [] v.t = "int" -> ToString(v.n)
      [] v.t = "bool" -> IF v.b THEN "True" ELSE "False"
      [] OTHER -> "None"

\* value.get(part)
dict_get(value, part) == IF HasField(value, part) THEN Lookup(value, part) ELSE JNull

\* var_name.split('.'): the parts, as strings
RECURSIVE split_dot(_, _)
split_dot(chars, part) ==
    IF chars = <<>> THEN <<part>>
    ELSE IF Head(chars) = "." THEN <<part>> \o split_dot(Tail(chars), "")
    ELSE split_dot(Tail(chars), part \o Head(chars))

\* var_path.strip()
RECURSIVE lstrip(_)
lstrip(chars) == IF chars # <<>> /\ Head(chars) = " " THEN lstrip(Tail(chars)) ELSE chars
strip(chars) == Reverse(lstrip(Reverse(lstrip(chars))))

\* the loop over parts: the value reached, or Missing when a part is looked
\* up in a value that is no dict
RECURSIVE walk_parts(_, _)
walk_parts(value, parts) ==
    IF parts = <<>> THEN value
    ELSE IF isinstance_dict(value) THEN walk_parts(dict_get(value, Head(parts)), Tail(parts))
    ELSE Missing

\* safe_substitute.replace_var
safe_replace_var(var_chars, data) ==
    LET var_name == JoinText(var_chars, "")
        value == IF "." \in Range(var_chars) THEN walk_parts(data, split_dot(var_chars, ""))
                 ELSE dict_get(data, var_name)
    IN IF value = Missing THEN undefined_marker(var_name)
       ELSE IF value = JNull THEN undefined_marker(var_name)
       ELSE IF value.t \in {"dict", "list"} THEN json_dumps_plain(value, ", ", ": ")
       ELSE py_str(value)

\* substitute_template.replace_var
unified_replace_var(var_chars, data) ==
    LET var_path == JoinText(strip(var_chars), "")
        value == walk_parts(data, split_dot(strip(var_chars), ""))
    IN IF value = Missing THEN undefined_marker(var_path)
       ELSE IF value = JNull THEN undefined_marker(var_path)
       ELSE IF value.t \in {"dict", "list"} THEN json_dumps_plain(value, ",", ":")
       ELSE IF value.t = "bool" THEN (IF value.b THEN "true" ELSE "false")
       ELSE py_str(value)

\* [^}]+ at the start of chars: the longest run of characters other than }
RECURSIVE run_length(_)
run_length(chars) ==
    IF chars = <<>> \/ Head(chars) = "}" THEN 0 ELSE 1 + run_length(Tail(chars))

\* \{\{([^}]+)\}\} matched at the start of chars: the length of group 1, or 0
match_length(chars) ==
    IF Len(chars) >= 5 /\ chars[1] = "{" /\ chars[2] = "{"
    THEN LET n == run_length(SubSeq(chars, 3, Len(chars)))
         IN IF n >= 1 /\ Len(chars) >= n + 4 /\ chars[n + 3] = "}" /\ chars[n + 4] = "}"
            THEN n ELSE 0
    ELSE 0

\* re.sub(r'\{\{([^}]+)\}\}', replace_var, template), with safe_substitute's
\* replace_var (style "safe") or substitute_template's
RECURSIVE re_sub(_, _, _)
re_sub(style, chars, data) ==
    IF chars = <<>> THEN ""
    ELSE IF match_length(chars) > 0
    THEN (IF style = "safe"
          THEN safe_replace_var(SubSeq(chars, 3, match_length(chars) + 2), data)
          ELSE unified_replace_var(SubSeq(chars, 3, match_length(chars) + 2), data))
         \o re_sub(style, SubSeq(chars, match_length(chars) + 5, Len(chars)), data)
    ELSE Head(chars) \o re_sub(style, Tail(chars), data)

safe_substitute(template, data) == re_sub("safe", template, data)
substitute_template(template, data) == re_sub("unified", template, data)

\* The templates and records drawn.  A piece is literal text or a
\* placeholder; a placeholder names a path of fields, with or without blanks
\* around it.
Literal(chars) == [kind |-> "text", chars |-> chars]
Placeholder(path, pad) == [kind |-> "var", path |-> path, pad |-> pad]
dotted(path) ==
    Flatten([i \in 1..Len(path) |-> IF i = 1 THEN <<path[i]>> ELSE <<".", path[i]>>])
piece_chars(piece) ==
    IF piece.kind = "text" THEN piece.chars
    ELSE <<"{", "{">> \o piece.pad \o dotted(piece.path) \o piece.pad \o <<"}", "}">>
TemplatePieces ==
    {Literal(<<"x">>), Literal(<<"{">>), Literal(<<"}">>),
     Placeholder(<<"a">>, <<>>), Placeholder(<<"b">>, <<>>),
     Placeholder(<<"a", "b">>, <<>>), Placeholder(<<"b", "a">>, <<>>),
     Placeholder(<<"a">>, <<" ">>)}
Templates == UNION {[1..n -> TemplatePieces] : n \in 1..MaxParts}
template_chars(parts) == Flatten([i \in 1..Len(parts) |-> piece_chars(parts[i])])
TemplateValues ==
    {Missing, JNull, JStr("v"), JStr(""), JInt(0), JBool(FALSE), JList(<<JInt(1)>>),
     JDict(<<>>), JDict(<<Pair("b", JStr("w"))>>), JDict(<<Pair("b", JNull)>>)}
TemplateData ==
    {JDict((IF a = Missing THEN <<>> ELSE <<Pair("a", a)>>)
           \o (IF b = Missing THEN <<>> ELSE <<Pair("b", b)>>)) :
        a \in TemplateValues, b \in {Missing, JStr("u")}}

TemplateIdle ==
    /\ tp_parts = <<>>
    /\ tp_template = <<>>
    /\ tp_data = JDict(<<>>)
    /\ tp_safe = NoCall
    /\ tp_unified = NoCall

TemplateInit ==
    /\ tp_parts \in Templates
    /\ tp_template = template_chars(tp_parts)
    /\ tp_data \in TemplateData
    /\ tp_safe = NoCall
    /\ tp_unified = NoCall

SafeSubstitute ==
    /\ tp_template # <<>>
    /\ tp_safe = NoCall
    /\ tp_safe' = Return(safe_substitute(tp_template, tp_data))
    /\ UNCHANGED <<tp_parts, tp_template, tp_data, tp_unified>>
    /\ UNCHANGED <<rvars, cvars, avars, qvars, pvars, svars, mvars>>

SubstituteTemplate ==
    /\ tp_template # <<>>
    /\ tp_unified = NoCall
    /\ tp_unified' = Return(substitute_template(tp_template, tp_data))
    /\ UNCHANGED <<tp_parts, tp_template, tp_data, tp_safe>>
    /\ UNCHANGED <<rvars, cvars, avars, qvars, pvars, svars, mvars>>

(***************************************************************************)
(* Part 11: a step that names several operators (axis_pipes.py,            *)
(* axis_ra.py).  A step is the set of its operators, each with its         *)
(* configuration.  extract_ra_operations iterates a set of strings, whose  *)
(* order follows the string hashes of the process: every order is one some *)
(* process has.                                                            *)
(***************************************************************************)
MaxProcesses == 2
\* the operators drawn, of the eight of ra_operations
DrawnOperators == {"select", "project", "exists_in", "union"}
SetOrders == {s \in [1..Cardinality(DrawnOperators) -> DrawnOperators] :
                 Range(s) = DrawnOperators}

\* op in step, and {op: step[op]}
names_operator(step, op) == \E o \in step : o.op = op
operator_of(step, op) == CHOOSE o \in step : o.op = op

\* is_ra_operation
is_ra_operation(step) == \E o \in step : o.op \in DrawnOperators

\* extract_ra_operations, in a process that iterates ra_operations in order
extract_ra_operations(step, order) ==
    LET found == SelectSeq(order, LAMBDA op : names_operator(step, op))
    IN [i \in 1..Len(found) |-> operator_of(step, found[i])]

\* apply_ra_pipeline
RECURSIVE apply_ra_pipeline(_, _)
apply_ra_pipeline(data, operations) ==
    IF operations = <<>> THEN Return(data)
    ELSE LET current_data == apply_ra_operation(data, Head(operations))
         IN IF current_data.status = "raised" THEN current_data
            ELSE apply_ra_pipeline(current_data.value, Tail(operations))

\* apply_ra_operation on the step itself: the first branch of its if-chain
\* whose operator the step names
DispatchOrder == <<"select", "project", "join", "exists_in", "not_exists_in", "aggregate",
                   "union", "difference">>
apply_ra_operation_on_step(data, step) ==
    LET named == SelectSeq(DispatchOrder, LAMBDA op : names_operator(step, op))
    IN apply_ra_operation(data, operator_of(step, Head(named)))

\* _uses_structure on the step
structure_ops == {"join", "difference", "union", "exists_in", "not_exists_in"}
refers_to_structure(o) == o.op \in structure_ops /\ o.config.using # Missing
uses_structure_in_step(step) == \E o \in step : refers_to_structure(o)

\* _apply_structure_enhanced_ra on the step: the first branch of its if-chain
\* whose operator the step names with using; it returns what that one
\* operator gives
EnhancedOrder == <<"join", "difference", "exists_in", "not_exists_in">>
apply_structure_enhanced_ra_on_step(data, step, reg, structures_used_log) ==
    LET enhanced == SelectSeq(EnhancedOrder,
                              LAMBDA op : /\ names_operator(step, op)
                                          /\ refers_to_structure(operator_of(step, op)))
    IN IF enhanced # <<>>
       THEN apply_structure_enhanced_ra(data, operator_of(step, Head(enhanced)), reg,
                                        structures_used_log)
       ELSE [registry |-> reg, out |-> apply_ra_operation_on_step(data, step),
             structures_used |-> structures_used_log]

\* The body of PipelineEngine.run's loop for the step
run_operators(data, step, reg, order) ==
    IF reg.present /\ uses_structure_in_step(step)
    THEN apply_structure_enhanced_ra_on_step(data, step, reg, <<>>)
    ELSE [registry |-> reg, out |-> apply_ra_pipeline(data, extract_ra_operations(step, order)),
          structures_used |-> <<>>]

\* generate_ra_audit; operations_hash is a digest of ra_operations
generate_ra_audit(run_input, operations, output_data) ==
    [ra_operations |-> operations,
     operations_count |-> Len(operations),
     input_hash |-> record_text_hash(run_input),
     output_hash |-> record_text_hash(output_data)]

\* PipelineEngine.run on the one step, from the loop to the return
run_finished(run_input, done, ra_operations_applied) ==
    IF done.out.status = "raised" THEN PipelineFailed(done.out.error)
    ELSE LET returned == run_result(run_input, done.out.value, done.registry,
                                    done.structures_used)
         IN Return([payload |-> returned.payload,
                    _pipe_audit |-> returned._pipe_audit
                                      @@ [ra_audit |-> generate_ra_audit(run_input,
                                                                         ra_operations_applied,
                                                                         done.out.value)]])
run(run_input, step, reg, order) ==
    run_finished(run_input, run_operators(run_input, step, reg, order),
                 extract_ra_operations(step, order))

\* The steps drawn: every non-empty choice of a select, a project, a
\* semi-join and a union.
IdIsOne == PyCompare(PyName("id"), <<"eq">>, <<PyConstant(JInt(1))>>)
NameIsA == PyCompare(PyName("name"), <<"eq">>, <<PyConstant(JStr("a"))>>)
Operator(op, config) == [op |-> op, config |-> config]
OperatorChoices(op) ==
    CASE op = "select" -> {Operator(op, p) : p \in {IdIsOne, NameIsA}}
      [] op = "project" -> {Operator(op, a) : a \in {<<"id">>, <<"name">>}}
      [] op = "exists_in" ->
           {Operator(op, StepConfig(w, u, Missing, JStr("id"))) :
               w \in {Missing, InlineData}, u \in {Missing, JStr("blocked")}}
      [] op = "union" -> {Operator(op, StepConfig(Missing, JStr("blocked"), Missing, Missing))}
OperatorSteps ==
    {step \in SUBSET UNION {OperatorChoices(op) : op \in DrawnOperators} :
        /\ step # {}
        /\ \A o1, o2 \in step : o1.op = o2.op => o1 = o2}
StepRegistries ==
    {NoRegistry} \cup {StructureRegistry(StructuresConfig(d)) :
                          d \in {s \in RegistrySources : Len(s) = 1}}

StepIdle ==
    /\ ms_step = {}
    /\ ms_data = JList(<<>>)
    /\ ms_registry = NoRegistry
    /\ ms_runs = <<>>

StepInit ==
    /\ ms_step \in OperatorSteps
    /\ ms_data \in PipeData
    /\ ms_registry \in StepRegistries
    /\ ms_runs = <<>>

\* One process builds the engine and calls run on the input.
RunRecorded(order, out) ==
    /\ ms_runs' = Append(ms_runs, [order |-> extract_ra_operations(ms_step, order), out |-> out])
    /\ UNCHANGED <<ms_step, ms_data, ms_registry>>
    /\ UNCHANGED <<rvars, cvars, avars, qvars, pvars, svars, tvars>>
RunProcess ==
    /\ ms_step # {}
    /\ Len(ms_runs) < MaxProcesses
    /\ \E order \in SetOrders : RunRecorded(order, run(ms_data, ms_step, ms_registry, order))

(***************************************************************************)
(* Specifications                                                          *)
(***************************************************************************)
\* RuleEngine(config) built on rule list rs, and the input the caller holds.
EngineStart(rs, inp) ==
    /\ rules = rs
    /\ input_data = inp
    /\ heap = InitHeap
    /\ rules_hash = generate_rules_hash(rs, InitHeap)
    /\ new_state = EmptyRec
    /\ context = EmptyRec
    /\ pending_changes = <<>>
    /\ total_changes = <<>>
    /\ conflicts = <<>>
    /\ iteration = 0
    /\ changed = FALSE
    /\ pc = "idle"
    /\ ri = 1
    /\ result = NoResult
    /\ prev_result = NoResult
    /\ runs = 0
    /\ caller_mutated = FALSE
    /\ input0 = ViewRec(inp, InitHeap)
    /\ iter_start = [st |-> EmptyRec, h |-> InitHeap]
    /\ last_set = [k \in Keys |-> NoWrite]
    /\ last_overwrite = NoOverwrite
    /\ seen_branches = <<>>
EngineInit == \E rs \in RuleLists, inp \in Inputs : EngineStart(rs, inp)
EngineIdle == EngineStart(<<R_lo>>, EmptyRec)

\* The rule engine: apply calls on one engine
Init == EngineInit /\ CanonIdle /\ RelIdle /\ QueryIdle /\ PipeIdle /\ BuildIdle /\ TemplateIdle /\ StepIdle
Next ==
    \/ Apply_Start
    \/ Loop_Enter
    \/ Loop_Exit
    \/ EvalRule
    \/ SortPending
    \/ ApplyChange
    \/ Finish
    \/ CallerMutatesResult
Spec == Init /\ [][Next]_vars

\* Canonicalization and hashing of two values
InitCanon == EngineIdle /\ CanonInit /\ RelIdle /\ QueryIdle /\ PipeIdle /\ BuildIdle /\ TemplateIdle /\ StepIdle
NextCanon ==
    \/ Canonicalize
    \/ ContentHash
SpecCanon == InitCanon /\ [][NextCanon]_vars

\* Semi-join and anti-join of one data operand against one reference
InitRel == EngineIdle /\ CanonIdle /\ RelInit /\ QueryIdle /\ PipeIdle /\ BuildIdle /\ TemplateIdle /\ StepIdle
NextRel ==
    \/ BuildSet
    \/ ExistsIn
    \/ NotExistsIn
SpecRel == InitRel /\ [][NextRel]_vars

\* One join, on inline right records and on the hashmap built from them
InitJoin == EngineIdle /\ CanonIdle /\ RelIdle /\ JoinInit /\ PipeIdle /\ BuildIdle /\ TemplateIdle /\ StepIdle
NextJoin ==
    \/ BuildHashMap
    \/ Join
    \/ JoinWithHashmap
SpecJoin == InitJoin /\ [][NextJoin]_vars

\* Unions and differences of two record collections
InitSets == EngineIdle /\ CanonIdle /\ RelIdle /\ SetsInit /\ PipeIdle /\ BuildIdle /\ TemplateIdle /\ StepIdle
NextSets ==
    \/ Union
    \/ Difference
    \/ BuildRightSet
    \/ DifferenceWithSet
SpecSets == InitSets /\ [][NextSets]_vars

\* One comparison, evaluated by both predicate evaluators
InitCompare == EngineIdle /\ CanonIdle /\ RelIdle /\ CompareInit /\ PipeIdle /\ BuildIdle /\ TemplateIdle /\ StepIdle
NextCompare ==
    \/ EvaluateAst
    \/ SafeEvalPredicate
SpecCompare == InitCompare /\ [][NextCompare]_vars

\* One pipeline of one step: validation and run
InitValidate == EngineIdle /\ CanonIdle /\ RelIdle /\ QueryIdle /\ ValidateInit /\ BuildIdle /\ TemplateIdle /\ StepIdle
NextValidate ==
    \/ Validate("e1")
    \/ CliExit("e1")
    \/ RunStep("e1")
    \/ RunReturn("e1")
SpecValidate == InitValidate /\ [][NextValidate]_vars

\* select and the rule-condition evaluator on one predicate and one input
InitSelect == EngineIdle /\ CanonIdle /\ RelIdle /\ SelectInit /\ PipeIdle /\ BuildIdle /\ TemplateIdle /\ StepIdle
NextSelect ==
    \/ Select
    \/ EvaluateCondition
SpecSelect == InitSelect /\ [][NextSelect]_vars

\* Runs of a pipeline whose step names several operators
InitStep == EngineIdle /\ CanonIdle /\ RelIdle /\ QueryIdle /\ PipeIdle /\ BuildIdle /\ TemplateIdle /\ StepInit
NextStep == RunProcess
SpecStep == InitStep /\ [][NextStep]_vars

\* Two runs of one engine on its registry, their steps interleaved
InitShared == EngineIdle /\ CanonIdle /\ RelIdle /\ QueryIdle /\ SharedInit /\ BuildIdle /\ TemplateIdle /\ StepIdle
NextShared ==
    \/ \E e \in Evaluations : RunStep(e)
    \/ \E e \in Evaluations : RunReturn(e)
SpecShared == InitShared /\ [][NextShared]_vars

\* One evaluation and direct calls on the structures
InitUse == EngineIdle /\ CanonIdle /\ RelIdle /\ QueryIdle /\ UseInit /\ BuildIdle /\ TemplateIdle /\ StepIdle
NextUse ==
    \/ RunStep("e1")
    \/ RunReturn("e1")
    \/ HashMapGet
    \/ SetContains
    \/ SetContainsFieldValue
    \/ QueuePeek
    \/ QueueSize
SpecUse == InitUse /\ [][NextUse]_vars

\* One aggregate call
InitAggregate == EngineIdle /\ CanonIdle /\ RelIdle /\ AggregateInit /\ PipeIdle /\ BuildIdle /\ TemplateIdle /\ StepIdle
NextAggregate == Aggregate
SpecAggregate == InitAggregate /\ [][NextAggregate]_vars

\* The construction of a registry from a configuration
InitBuild == EngineIdle /\ CanonIdle /\ RelIdle /\ QueryIdle /\ PipeIdle /\ BuildInit /\ TemplateIdle /\ StepIdle
NextBuild ==
    \/ MaterializeNext
    \/ Constructed
SpecBuild == InitBuild /\ [][NextBuild]_vars

\* Template substitution
InitTemplate ==
    EngineIdle /\ CanonIdle /\ RelIdle /\ QueryIdle /\ PipeIdle /\ BuildIdle /\ TemplateInit
        /\ StepIdle
NextTemplate ==
    \/ SafeSubstitute
    \/ SubstituteTemplate
SpecTemplate == InitTemplate /\ [][NextTemplate]_vars

(***************************************************************************)
(* Properties of RuleEngine.apply                                          *)
(***************************************************************************)
Returned == pc = "done" /\ result.status = "returned"
ErrorItems == result.record["errors"].items
ConflictMessages == {i \in 1..Len(ErrorItems) : ErrorItems[i] \notin Atoms \cup {MaxIterMarker}}

\* C1: apply never runs more than max_iterations (50) iterations, and a call
\* whose rules still changed the state in the last allowed iteration returns
\* normally, with the max-iterations marker in errors, instead of raising.
C1_BoundedWithMarker ==
    /\ iteration <= max_iterations
    /\ (pc = "done" /\ iteration = max_iterations /\ changed)
         => (result.status = "returned" /\ MaxIterMarker \in Range(ErrorItems))

\* C2: with the two rules {x: "lo", priority 1} and {x: "hi", priority 5}, the
\* priority-5 rule declared later, on an input without x, apply ends with
\* x = "hi" and exactly one conflict for the whole call (audit conflicts = 1,
\* one conflict message in errors).
C2_OneConflict ==
    (pc = "done" /\ rules = <<R_lo, R_hi>> /\ input_data["x"] = None)
      => /\ result.status = "returned"
         /\ result.record["x"] = View("hi", heap)
         /\ result.audit.conflicts = 1
         /\ Cardinality(ConflictMessages) = 1

\* C3: a Replace overwrites a key that holds a different value only if its
\* priority is strictly greater than the priority of the write that last set
\* the key in this call.
C3_OverwriteNeedsHigherPriority ==
    (last_overwrite.valid /\ last_overwrite.setter.set)
      => last_overwrite.priority > last_overwrite.setter.priority

\* C4: within one iteration every rule's branch is the one its condition
\* selects on the state the iteration started with, and while the rules are
\* being evaluated the context still shows that state: no condition observes
\* a write of the same iteration.
C4_ConditionsSeeIterationStart ==
    /\ pc \in {"eval", "apply"} =>
         \A n \in 1..Len(seen_branches) :
            seen_branches[n].branch =
               target_branch(rules[seen_branches[n].rule], iter_start.st, iter_start.h)
    /\ pc = "eval" => ViewRec(context, heap) = ViewRec(iter_start.st, iter_start.h)

\* Witness of C4: in a second or later iteration, after writes of this
\* iteration have changed the state, a conditional rule has been evaluated and
\* writes of the earlier iteration are visible in the context.
C4_Witness ==
    /\ pc = "apply"
    /\ iteration >= 2
    /\ ViewRec(new_state, heap) # ViewRec(iter_start.st, iter_start.h)
    /\ ViewRec(context, heap) # ViewRec(iter_start.st, iter_start.h)
    /\ \E n \in 1..Len(seen_branches) : "if" \in DOMAIN rules[seen_branches[n].rule]

\* C5: two apply calls of one engine on the same input return the same record
\* and the same audit (rules hash, input hash, output hash).
C5_Deterministic ==
    (pc = "done" /\ prev_result.status # "none") => result = prev_result

\* C6: apply never modifies the caller's input, and neither does a later
\* mutation of the record it returned.
C6_InputUnchanged == ViewRec(input_data, heap) = input0

\* Witness of C6: the input holds a list, apply has appended to its copy of
\* that list, and the caller has then mutated the returned record.
C6_Witness ==
    /\ pc = "done"
    /\ caller_mutated
    /\ IsList(input_data["x"])
    /\ result.status = "returned"
    /\ result.record["x"].list
    /\ result.record["x"].items # input0["x"].items
    /\ View(new_state["x"], heap) # result.record["x"]

(***************************************************************************)
(* Dependencies between rules: a rule depends on the rules that write a    *)
(* key its condition reads.                                                *)
(***************************************************************************)
RECURSIVE CondVars(_)
CondVars(node) ==
    CASE node.type = "var" -> {node.name[1]}
      [] node.type = "binary_op" -> CondVars(node.left) \cup CondVars(node.right)
      [] node.type = "unary_op" -> CondVars(node.operand)
      [] node.type = "logical" -> UNION {CondVars(node.values[i]) : i \in 1..Len(node.values)}
      [] OTHER -> {}
Reads(rule) == IF "if" \in DOMAIN rule THEN CondVars(rule["if"]) ELSE {}
BranchKeys(rule, b) == IF b \in DOMAIN rule
                       THEN {clean_key(rule[b][n].key) : n \in 1..Len(rule[b])} ELSE {}
Writes(rule) == BranchKeys(rule, "then") \cup BranchKeys(rule, "else")
DependsOn(rs) == {p \in (1..Len(rs)) \X (1..Len(rs)) : Reads(rs[p[1]]) \cap Writes(rs[p[2]]) # {}}
RECURSIVE Closure(_, _)
Closure(E, n) == IF n = 0 THEN E
                 ELSE Closure(E \cup {<<pq[1][1], pq[2][2]>> : pq \in {r \in E \X E : r[1][2] = r[2][1]}},
                              n - 1)
Acyclic(rs) == \A p \in Closure(DependsOn(rs), Len(rs)) : p[1] # p[2]

\* C7: an acyclic rule list converges, with an iteration count of at most the
\* number of rules.
C7_AcyclicConvergesInLenRules ==
    (pc = "done" /\ Acyclic(rules))
      => (result.status = "returned" /\ ~changed /\ iteration <= Len(rules))

(***************************************************************************)
(* Properties of canonicalize and generate_content_hash                    *)
(***************************************************************************)
IsNumber(v) == v.t \in {"int", "float"}
IsFinite(v) == v.t = "int" \/ v.finite

\* keys strictly ascending in every mapping of v
RECURSIVE KeysSorted(_)
KeysSorted(v) ==
    CASE v.t = "dict" ->
           /\ \A i \in 1..Len(v.pairs), j \in 1..Len(v.pairs) :
                 i < j => StrRank(v.pairs[i].k) < StrRank(v.pairs[j].k)
           /\ \A i \in 1..Len(v.pairs) : KeysSorted(v.pairs[i].v)
      [] v.t = "list" -> \A i \in 1..Len(v.items) : KeysSorted(v.items[i])
      [] OTHER -> TRUE

\* c keeps every sequence of v in its order: item i of a sequence of c is the
\* canonical form of item i of the sequence of v it stands for
RECURSIVE SequencesKept(_, _)
SequencesKept(v, c) ==
    CASE v.t = "list" ->
           /\ c.t = "list"
           /\ Len(c.items) = Len(v.items)
           /\ \A i \in 1..Len(v.items) :
                 c.items[i] = canonicalize(v.items[i]) /\ SequencesKept(v.items[i], c.items[i])
      [] v.t = "dict" ->
           /\ c.t = "dict"
           /\ Range(InsertionKeys(c)) = Range(InsertionKeys(v))
           /\ Len(c.pairs) = Len(v.pairs)
           /\ \A i \in 1..Len(v.pairs) : SequencesKept(v.pairs[i].v, Lookup(c, v.pairs[i].k))
      [] OTHER -> TRUE

\* v and w are the same value apart from the order of mapping keys: the same
\* type everywhere, numbers compared by their numeric value
RECURSIVE SameValue(_, _)
SameValue(v, w) ==
    CASE IsNumber(v) -> IsNumber(w) /\ IsFinite(v) = IsFinite(w) /\ v.n = w.n
      [] v.t = "list" ->
           /\ w.t = "list"
           /\ Len(w.items) = Len(v.items)
           /\ \A i \in 1..Len(v.items) : SameValue(v.items[i], w.items[i])
      [] v.t = "dict" ->
           /\ w.t = "dict"
           /\ Len(w.pairs) = Len(v.pairs)
           /\ Range(InsertionKeys(w)) = Range(InsertionKeys(v))
           /\ \A i \in 1..Len(v.pairs) : SameValue(v.pairs[i].v, Lookup(w, v.pairs[i].k))
      [] OTHER -> v = w

\* C8: where canonicalize succeeds, applying it to its own result changes
\* nothing, every mapping of the result has its keys in sorted order at every
\* depth, and every sequence keeps its length and the order of its items.
C8_CanonicalizeIdempotent ==
    (c_pc \in {"canon", "hashed"} /\ cv_canon # CanonError)
      => /\ cv_canon2 = cv_canon
         /\ KeysSorted(cv_canon)
         /\ SequencesKept(cv, cv_canon)

\* Witness of C8: canonicalize has succeeded on a mapping whose keys, and the
\* keys of a mapping nested in it, were inserted out of order, next to a
\* sequence of two different items.
C8_Witness ==
    /\ c_pc = "canon"
    /\ cv = JDict(<<Pair("b", JList(<<JInt(1), JBool(TRUE)>>)),
                    Pair("a", JDict(<<Pair("z", JInt(1)), Pair("x", JInt(2))>>))>>)
    /\ cv_canon # CanonError
    /\ cv_canon # cv
    /\ InsertionKeys(cv_canon) = <<"a", "b">>

\* C9: two values on which hashing succeeds have the same canonical form, and
\* the same content hash, exactly when they are the same value apart from the
\* order of mapping keys; a boolean and a number never share a canonical form.
C9_SameFormIffSameValue ==
    (c_pc = "hashed" /\ cv_hash # CanonError /\ cw_hash # CanonError)
      => /\ (cv_canon = cw_canon) <=> SameValue(cv, cw)
         /\ (cv_hash = cw_hash) <=> SameValue(cv, cw)

(***************************************************************************)
(* Properties of exists_in and not_exists_in                               *)
(***************************************************************************)
\* The records of an operand or a result: a single record stands for itself.
\* The empty mapping counts as no record: it is what the inline operations
\* return for a single record they drop.
IsRecord(r) == r.pairs # <<>>
RowsOf(v) == SelectSeq(RecordsOf(v), IsRecord)

\* the rows at the positions I, in their order
RECURSIVE RowsAt(_, _)
RowsAt(rows, I) ==
    IF rows = <<>> THEN <<>>
    ELSE RowsAt(SubSeq(rows, 1, Len(rows) - 1), I)
           \o (IF Len(rows) \in I THEN <<rows[Len(rows)]>> ELSE <<>>)

\* kept and dropped split the positions of rows between them, order preserved
Partitions(rows, kept, dropped) ==
    \E I \in SUBSET (1..Len(rows)) :
        kept = RowsAt(rows, I) /\ dropped = RowsAt(rows, (1..Len(rows)) \ I)

\* C10: for every data operand, field and reference (inline items or a set
\* structure), exists_in and not_exists_in both return, and every record of
\* the data is in exactly one of the two results, in its original order,
\* records that lack the field included.
C10_SemiAntiJoinPartition ==
    (ra_exists # NoCall /\ ra_not_exists # NoCall)
      => /\ ra_exists.status = "ok"
         /\ ra_not_exists.status = "ok"
         /\ Partitions(RowsOf(ra_data), RowsOf(ra_exists.value), RowsOf(ra_not_exists.value))

(***************************************************************************)
(* Properties of join                                                      *)
(***************************************************************************)
\* The right records whose on-field value equals that of the left record.
Matches(left_record, right_records, on_field) ==
    IF HasField(left_record, on_field)
    THEN SelectSeq(right_records, LAMBDA r : /\ HasField(r, on_field)
                                             /\ Lookup(r, on_field) = Lookup(left_record, on_field))
    ELSE <<>>

\* The output the join is to give: per left record in order, one record per
\* matching right record, or a left-only record under left join.
JoinOutput(q) ==
    LET ls == normalize_records(q.left)
    IN JList(Flatten([i \in 1..Len(ls) |->
          LET ms == Matches(ls[i], q.right.items, q.on)
          IN IF ms # <<>> THEN [j \in 1..Len(ms) |-> joined(ls[i], ms[j])]
             ELSE IF q.type = "left" THEN <<left_only(ls[i])>> ELSE <<>>]))

\* C11: the join on inline right records returns the output described, and so
\* does the join on the hashmap built from the same right records and keyed by
\* the on-field.
C11_JoinEquivalence ==
    \A l \in {"inline", "indexed"} :
        (q_op.op = "join" /\ q_out[l] # NoCall) => q_out[l] = Return(JoinOutput(q_op))

(***************************************************************************)
(* Properties of union and difference                                      *)
(***************************************************************************)
ContentHashes(rows) == {generate_content_hash(rows[i]) : i \in 1..Len(rows)}
Occurrences(rows, r) == Cardinality({i \in 1..Len(rows) : rows[i] = r})
SameRecords(rows1, rows2) ==
    /\ Len(rows1) = Len(rows2)
    /\ \A r \in Range(rows1) \cup Range(rows2) : Occurrences(rows1, r) = Occurrences(rows2, r)

\* rows holds exactly the records of left whose content hash no record of
\* right has
IsDifference(rows, left, right) ==
    SameRecords(rows, SelectSeq(left, LAMBDA r : generate_content_hash(r)
                                                    \notin ContentHashes(right)))

\* C12: difference, inline and on a prebuilt set, returns exactly the records
\* of L whose content hash is not a content hash of R; Difference(A, A) is
\* empty, and every record of Difference(Union(A, B), B) has the content hash
\* of a record of A.
C12_DifferenceByContentHash ==
    /\ (q_op.op = "sets" /\ q_out["diff_AB"] # NoCall)
         => /\ q_out["diff_AB"].status = "ok"
            /\ IsDifference(q_out["diff_AB"].value.items, q_op.A.items, q_op.B.items)
            /\ q_out["diff_AA"] = Return(JList(<<>>))
            /\ q_out["diff_UB"].status = "ok"
            /\ ContentHashes(q_out["diff_UB"].value.items) \subseteq ContentHashes(q_op.A.items)
    /\ (q_op.op = "sets" /\ q_out["diff_AB_set"] # NoCall)
         => /\ q_out["diff_AB_set"].status = "ok"
            /\ IsDifference(q_out["diff_AB_set"].value.items, q_op.A.items, q_op.B.items)

\* Witness of C12: both differences have run on a left operand of which one
\* record stays and one goes, the one that goes being written differently on
\* the right (1 against true, or the keys in another order).
C12_Witness ==
    /\ q_op.op = "sets"
    /\ q_out["diff_AB"] # NoCall
    /\ q_out["diff_AB_set"] # NoCall
    /\ Len(q_op.A.items) = 2
    /\ Len(q_out["diff_AB"].value.items) = 1
    /\ Range(q_op.A.items) \cap Range(q_op.B.items) = {}
    /\ q_out["diff_UB"].value.items # <<>>

\* the distinct records among rows: one class per value
ValueClasses(rows) ==
    {{j \in 1..Len(rows) : SameValue(rows[i], rows[j])} : i \in 1..Len(rows)}
\* rows holds exactly one record per distinct record of source
OnePerDistinct(rows, source) ==
    /\ Len(rows) = Cardinality(ValueClasses(source))
    /\ \A i \in 1..Len(source) : \E j \in 1..Len(rows) : SameValue(rows[j], source[i])
    /\ \A j \in 1..Len(rows) : \E i \in 1..Len(source) : SameValue(rows[j], source[i])
SameRows(rows1, rows2) ==
    /\ Len(rows1) = Len(rows2)
    /\ \A i \in 1..Len(rows1) : SameValue(rows1[i], rows2[i])

\* C13: Union(A, B) and Union(B, A) are the same record for record, and so is
\* the union of the operands with their records reversed; the union holds
\* exactly one record per distinct record of A and B, and Union(A, A) is A
\* with duplicates removed.
C13_UnionOrderIndependent ==
    (q_op.op = "sets" /\ q_out["union_AB"] # NoCall)
      => /\ \A l \in UnionLabels : q_out[l].status = "ok"
         /\ SameRows(q_out["union_AB"].value.items, q_out["union_BA"].value.items)
         /\ SameRows(q_out["union_AB"].value.items, q_out["union_rev"].value.items)
         /\ OnePerDistinct(q_out["union_AB"].value.items, q_op.A.items \o q_op.B.items)
         /\ OnePerDistinct(q_out["union_AA"].value.items, q_op.A.items)

(***************************************************************************)
(* Properties of predicate evaluation                                      *)
(***************************************************************************)
\* The type of a value in the data model: null, boolean, number, string, list
ValueType(v) == IF v.t \in {"int", "float"} THEN "number" ELSE v.t

\* The operands do not fit the operator: two different types under ==, != and
\* the order comparisons; under in and not in, a right operand that is no
\* container, or a string searched for something that is no string.
Mismatched(operator, l, r) ==
    IF operator \in {"in", "notin"}
    THEN r.t # "list" /\ ~(r.t = "str" /\ l.t = "str")
    ELSE ValueType(l) # ValueType(r)

\* C14: under every comparison operator, a comparison of operands of
\* mismatched types evaluates to false, in both evaluators.
C14_MismatchIsFalse ==
    \A l \in {"evaluate_ast", "safe_eval_predicate"} :
        (/\ q_op.op = "compare"
         /\ q_out[l] # NoCall
         /\ Mismatched(q_op.operator, context_get(q_op.context, "x"),
                       context_get(q_op.context, "y")))
          => q_out[l] = Return(JBool(FALSE))

(***************************************************************************)
(* Properties of validation and of PipelineEngine.run                      *)
(***************************************************************************)
StructureOps == {"join", "difference", "exists_in", "not_exists_in"}
Refers(step, reg) ==
    /\ step.op \in StructureOps
    /\ step.config.using # Missing
    /\ reg.present
    /\ registry_exists(reg, step.config.using.s)
\* the structure referred to is not of the type the operation needs, or is a
\* hashmap keyed by another field than the join's on field
Mismatch(step, reg) ==
    /\ Refers(step, reg)
    /\ LET structure == registry_get(reg, step.config.using.s)
       IN IF step.op = "join"
          THEN \/ structure.type # "hashmap"
               \/ step.config.on # Missing /\ structure.key_field # step.config.on.s
          ELSE structure.type # "set"
Rejected(e) ==
    \/ ev_out[e] # NoCall /\ ev_out[e].status = "raised"
    \/ ev_out[e] = NoCall /\ ev_errors[e] # NoCall /\ ev_errors[e].value # <<>>

\* C15: an operation that refers to a structure of the wrong type, or a join
\* that refers to a hashmap keyed by another field than its on field, is
\* never evaluated on data: the evaluation ends with an error instead.
C15_MismatchRejectedBeforeEvaluation ==
    \A e \in Evaluations :
        (ev_pos[e] \in {"applied", "done"} /\ Mismatch(ev_step[e], registry))
          => /\ ev_current[e] = NoCall
             /\ Rejected(e)

Usable(step, reg) ==
    /\ step.config.using # Missing
    /\ reg.present
    /\ registry_exists(reg, step.config.using.s)
Malformed(step, reg) ==
    \/ step.config.with = Missing /\ ~Usable(step, reg)
    \/ step.op = "join" /\ step.config.on = Missing
MissingSpecCauses ==
    {"KeyError: 'on'",
     "ValueError: Structure-backed join requires registry context",
     "ValueError: Join operation requires either 'with' or 'using'",
     "ValueError: Union operation requires 'with' parameter",
     "ValueError: Structure-backed difference requires registry context",
     "ValueError: Difference operation requires either 'with' or 'using'",
     "ValueError: Structure not found in registry"}
    \cup {"ValueError: Structure-backed " \o op \o " requires registry context" :
             op \in {"exists_in", "not_exists_in"}}
    \cup {"ValueError: " \o op \o " operation requires either 'with' or 'using'" :
             op \in {"exists_in", "not_exists_in"}}

\* C16: validation returns an error for every operation that has neither
\* inline data nor a usable structure reference and for every join without
\* on; and a run of an operation that validation accepted never fails for a
\* missing on, with or using.
C16_MalformedCaughtByValidation ==
    \A e \in Evaluations :
        ev_errors[e] # NoCall
          => /\ Malformed(ev_step[e], registry) => ev_errors[e].value # <<>>
             /\ (ev_errors[e].value = <<>> /\ ev_out[e] # NoCall /\ ev_out[e].status = "raised")
                  => ev_out[e].cause \notin MissingSpecCauses

(***************************************************************************)
(* Properties of aggregate                                                 *)
(***************************************************************************)
AggregateRows == normalize_records(q_op.data)
GroupKeySet == {record_get(AggregateRows[i], q_op.group_by) : i \in 1..Len(AggregateRows)}
\* the numeric values of the target field in the group of key
NumericValues(key) ==
    LET rows == SelectSeq(AggregateRows,
                          LAMBDA r : /\ record_get(r, q_op.group_by) = key
                                     /\ HasField(r, q_op.target_field)
                                     /\ Lookup(r, q_op.target_field).t \in {"int", "float"})
    IN [i \in 1..Len(rows) |-> Lookup(rows[i], q_op.target_field).n]
RECURSIVE Total(_)
Total(ns) == IF ns = <<>> THEN 0 ELSE Head(ns) + Total(Tail(ns))
\* value is what operation gives on the numbers ns
IsAggregateOf(value, operation, ns) ==
    CASE operation = "sum" -> value.t \in {"int", "float"} /\ value.n = Total(ns)
      [] operation = "avg" -> /\ value.t = "float"
                              /\ value.num * Len(ns) = Total(ns) * value.den
      [] operation = "min" -> /\ value.t \in {"int", "float"}
                              /\ value.n \in Range(ns)
                              /\ \A i \in 1..Len(ns) : value.n <= ns[i]
      [] operation = "max" -> /\ value.t \in {"int", "float"}
                              /\ value.n \in Range(ns)
                              /\ \A i \in 1..Len(ns) : value.n >= ns[i]

\* C17: sum, avg, min and max return, for every group, the result over the
\* numeric values of the target field in the group; values that are absent
\* or not numeric are left out and raise no error.
C17_AggregateOverNumericValues ==
    (q_op.op = "aggregate" /\ q_op.operation # "count" /\ q_out["aggregate"] # NoCall)
      => /\ q_out["aggregate"].status = "ok"
         /\ \A key \in GroupKeySet :
               \E i \in 1..Len(q_out["aggregate"].value.items) :
                  LET item == q_out["aggregate"].value.items[i]
                      name == q_op.operation \o "_" \o q_op.target_field
                  IN /\ Lookup(item, q_op.group_by) = key
                     /\ NumericValues(key) # <<>>
                          => /\ HasField(item, name)
                             /\ IsAggregateOf(Lookup(item, name), q_op.operation,
                                              NumericValues(key))
                     /\ NumericValues(key) = <<>> => ~HasField(item, name)

(***************************************************************************)
(* Properties of the operators on data with gaps                           *)
(***************************************************************************)
\* the values the reference gives for the field: those of its records that
\* have the field, and its items that are no records
ReferenceValues(items, field) ==
    {PyKey(Lookup(items[i], field)) :
        i \in {j \in 1..Len(items) : isinstance_dict(items[j]) /\ HasField(items[j], field)}}
    \cup {PyKey(items[i]) : i \in {j \in 1..Len(items) : ~isinstance_dict(items[j])}}
\* every value of the field in the data is a scalar
ScalarField(data, field) ==
    \A i \in 1..Len(RecordsOf(data)) : ~RaisesOnLookup(RecordsOf(data)[i], field)
InReference(record) ==
    /\ HasField(record, ra_field)
    /\ PyKey(Lookup(record, ra_field)) \in ReferenceValues(ra_reference.items, ra_field)
NotInReference(record) == ~InReference(record)

\* C18: on inline reference data, exists_in and not_exists_in return a
\* result whatever records the reference holds: a reference record without
\* the field gives no value, and the rows kept are those whose value is, or
\* is not, among the values the other reference items give.
C18_ReferenceGapsRaiseNothing ==
    (ra_reference.kind = "inline" /\ ScalarField(ra_data, ra_field))
      => /\ ra_exists # NoCall
              => /\ ra_exists.status = "ok"
                 /\ RowsOf(ra_exists.value) = SelectSeq(RowsOf(ra_data), InReference)
         /\ ra_not_exists # NoCall
              => /\ ra_not_exists.status = "ok"
                 /\ RowsOf(ra_not_exists.value) = SelectSeq(RowsOf(ra_data), NotInReference)

(***************************************************************************)
(* Properties of evaluations on one registry                               *)
(***************************************************************************)
\* the registry as its constructor left it
FreshRegistry == [registry EXCEPT !.structures = materialized,
                                  !.audit_log = SubSeq(@, 1, Len(registry.names))]
\* what run returns or raises for evaluation e on a registry no other
\* evaluation has used
RunOutcome(e, done) ==
    IF done.out.status = "raised" THEN PipelineFailed(done.out.error)
    ELSE Return(run_result(ev_data[e], done.out.value, done.registry, done.structures_used))
RunAlone(e) == RunOutcome(e, run_step(ev_data[e], ev_step[e], FreshRegistry, <<>>))

\* C19: what an evaluation returns, record and audit, is what it returns when
\* it is the only evaluation on the registry.
C19_EvaluationsIndependent ==
    \A e \in Evaluations : ev_out[e] # NoCall => ev_out[e] = RunAlone(e)

\* C20: whatever operations and direct calls have used the structures, every
\* structure of the registry (index, hashes, field indexes, queue items and
\* structure_hash) is as materialization left it.
C20_StructuresUnchangedByUse ==
    registry.present => registry.structures = materialized

\* a run has used a structure and the queue was peeked at
C20_Witness ==
    /\ ev_out["e1"] # NoCall
    /\ ev_out["e1"].status = "ok"
    /\ ev_used["e1"] # <<>>
    /\ use_out # NoCall
    /\ use_out.call = "peek"
    /\ use_out.value # <<>>
    /\ registry.structures = materialized


(***************************************************************************)
(* Properties of the construction of a registry                            *)
(***************************************************************************)
\* the source a declaration names cannot be read
Unreadable(c) ==
    /\ c.materialize = JStr("from_file")
    /\ \/ c.source = Missing
       \/ json_load_file(c.source.s).status = "raised"
\* the source a declaration names yields no list of records
Unusable(c) ==
    \/ /\ c.materialize \in {Missing, JStr("from_data")}
       /\ c.data # Missing
       /\ c.data.t \notin {"list", "dict"}
    \/ /\ c.materialize = JStr("from_file")
       /\ ~Unreadable(c)
       /\ json_load_file(c.source.s).value.t \notin {"list", "dict"}
    \/ /\ c.materialize = JStr("from_adapter")
       /\ load_from_adapter(c).log # <<>>
CannotMaterialize(c) ==
    \/ c.type \notin {JStr("hashmap"), JStr("set"), JStr("queue")}
    \/ c.type = JStr("hashmap") /\ c.key = Missing
    \/ c.materialize \notin {Missing, JStr("from_data"), JStr("from_file"), JStr("from_adapter")}
    \/ Unreadable(c)
    \/ Unusable(c)

\* C21: when a declared structure cannot be materialized (unknown type,
\* unknown materialize kind, unreadable or unusable source), the construction
\* raises an error naming such a structure; a registry that is returned
\* holds every declared structure.
C21_FailedMaterializationAborts ==
    sr_out # NoCall =>
        /\ (\E i \in 1..Len(sr_config) : CannotMaterialize(sr_config[i])) =>
              /\ sr_out.status = "raised"
              /\ \E i \in 1..Len(sr_config) : /\ CannotMaterialize(sr_config[i])
                                              /\ sr_out.structure = sr_config[i].name
        /\ sr_out.status = "ok" =>
              sr_out.value.names = [i \in 1..Len(sr_config) |-> sr_config[i].name]


(***************************************************************************)
(* Properties of template substitution                                     *)
(***************************************************************************)
\* the field a path of names refers to: Missing when it is absent, null or
\* reached through a value that is no mapping
RECURSIVE FieldAt(_, _)
FieldAt(value, path) ==
    IF path = <<>> THEN (IF value = JNull THEN Missing ELSE value)
    ELSE IF value.t = "dict" /\ \E i \in 1..Len(value.pairs) : value.pairs[i].k = Head(path)
    THEN FieldAt((CHOOSE pr \in Range(value.pairs) : pr.k = Head(path)).v, Tail(path))
    ELSE Missing
\* the texts of a value
ValueTexts(v) ==
    IF v.t \in {"dict", "list"}
    THEN {json_dumps_plain(v, ", ", ": "), json_dumps_plain(v, ",", ":")}
    ELSE IF v.t = "bool" THEN {py_str(v), json_dumps_plain(v, ",", ":")}
    ELSE {py_str(v)}
\* the markers naming the variable of a placeholder
Markers(piece) ==
    {"{{UNDEFINED:" \o JoinText(dotted(piece.path), "") \o "}}",
     "{{UNDEFINED:" \o JoinText(piece.pad \o dotted(piece.path) \o piece.pad, "") \o "}}"}
\* what may stand in the output in the place of a piece
Renderings(piece, data) ==
    IF piece.kind = "text" THEN {JoinText(piece.chars, "")}
    ELSE IF FieldAt(data, piece.path) = Missing THEN Markers(piece)
    ELSE IF piece.pad = <<>> THEN ValueTexts(FieldAt(data, piece.path))
    ELSE ValueTexts(FieldAt(data, piece.path)) \cup Markers(piece)
RECURSIVE Outputs(_, _)
Outputs(parts, data) ==
    IF parts = <<>> THEN {""}
    ELSE {first \o rest : first \in Renderings(Head(parts), data),
                          rest \in Outputs(Tail(parts), data)}
\* the literal text of the template holds no brace
PlainText(parts) ==
    \A i \in 1..Len(parts) :
        parts[i].kind = "text" => \A j \in 1..Len(parts[i].chars) :
                                     parts[i].chars[j] \notin {"{", "}"}

\* C22: in the output of safe_substitute and of substitute_template, every
\* placeholder whose field is absent, null or reached through a non-mapping
\* is replaced by an UNDEFINED marker naming the variable, and every
\* placeholder {{name}} or {{a.b}} whose field is present by the text of the
\* field's value; the text around the placeholders is kept.
C22_TemplateFailsClosed ==
    PlainText(tp_parts) =>
        /\ tp_safe # NoCall => tp_safe.value \in Outputs(tp_parts, tp_data)
        /\ tp_unified # NoCall => tp_unified.value \in Outputs(tp_parts, tp_data)

\* both functions have substituted a template that names an absent field
\* and a present one
C22_Witness ==
    /\ PlainText(tp_parts)
    /\ tp_safe # NoCall
    /\ tp_unified # NoCall
    /\ \E i \in 1..Len(tp_parts) : /\ tp_parts[i].kind = "var"
                                   /\ Len(tp_parts[i].path) = 2
                                   /\ FieldAt(tp_data, tp_parts[i].path) = Missing
    /\ \E i \in 1..Len(tp_parts) : /\ tp_parts[i].kind = "var"
                                   /\ tp_parts[i].pad = <<>>
                                   /\ FieldAt(tp_data, tp_parts[i].path) # Missing


(***************************************************************************)
(* Properties of the iterations of RuleEngine.apply                        *)
(***************************************************************************)
\* every pending change of the iteration has been applied
IterationApplied == pc = "apply" /\ pending_changes = <<>>
\* some field's value differs from its value when the iteration began
IterationAltered == ViewRec(new_state, heap) # ViewRec(iter_start.st, iter_start.h)

\* C23: when the pending changes of an iteration have been applied, changed
\* is true if and only if some field's value differs from its value before
\* them.
C23_ChangedIffFieldDiffers ==
    IterationApplied => (changed <=> IterationAltered)


\* the record apply returned carries the max-iterations marker in errors
HasMarker ==
    /\ result.record["errors"].list
    /\ MaxIterMarker \in Range(result.record["errors"].items)

\* C24: the record apply returns carries the max-iterations marker if and
\* only if the last iteration of the call still changed the state; a call
\* whose last iteration changed nothing returns no marker.
C24_MarkerIffStillChanging ==
    Returned => (HasMarker <=> changed)


(***************************************************************************)
(* Properties of the changes RuleEngine.apply applies                      *)
(***************************************************************************)
\* what a field holds: the items of its list, nothing when it is unset, or
\* its one value
Held(v, h) == IF IsList(v) THEN h[v] ELSE IF v = None THEN <<>> ELSE <<v>>
\* the step applies an Append change
AppendStep ==
    /\ pc = "apply"
    /\ pending_changes # <<>>
    /\ Head(pending_changes).merge_policy = "append"
    /\ pending_changes' = Tail(pending_changes)
FirstAt(seq, v) == CHOOSE i \in 1..Len(seq) : seq[i] = v /\ \A j \in 1..(i - 1) : seq[j] # v
\* after is before, followed by the values of added that before lacks, each
\* once and in the order of added
AppendedTo(before, added, after) ==
    /\ Len(after) >= Len(before)
    /\ SubSeq(after, 1, Len(before)) = before
    /\ LET rest == SubSeq(after, Len(before) + 1, Len(after))
       IN /\ Range(rest) = Range(added) \ Range(before)
          /\ \A i, j \in 1..Len(rest) :
                i < j => rest[i] # rest[j] /\ FirstAt(added, rest[i]) < FirstAt(added, rest[j])

\* C25: an Append change leaves the field holding what it held, followed by
\* the appended values it did not hold, each once.
C25_AppendAddsMissingKeepsHeld ==
    [][AppendStep =>
          LET change == Head(pending_changes)
              added == IF IsList(change.value) THEN heap[change.value] ELSE <<change.value>>
          IN /\ IsList(new_state'[change.key])
             /\ AppendedTo(Held(new_state[change.key], heap), added,
                           heap'[new_state'[change.key]])]_vars

(***************************************************************************)
(* Properties of the order in which RuleEngine.apply applies changes       *)
(***************************************************************************)
\* the number of changes the rules queued in this iteration
RECURSIVE QueuedCount(_)
QueuedCount(branches) ==
    IF branches = <<>> THEN 0
    ELSE Len(rule_changes(rules[Head(branches).rule], Head(branches).rule - 1,
                          Head(branches).branch)) + QueuedCount(Tail(branches))
\* the changes applied in this iteration, in the order they were applied
IterationChanges ==
    SubSeq(total_changes, Len(total_changes) - QueuedCount(seen_branches) + 1,
           Len(total_changes))
AppliedInOrder(cs) ==
    \A i, j \in 1..Len(cs) :
        i < j => \/ cs[i].priority > cs[j].priority
                 \/ /\ cs[i].priority = cs[j].priority
                    /\ cs[i].rule_index < cs[j].rule_index
                 \/ /\ cs[i].priority = cs[j].priority
                    /\ cs[i].rule_index = cs[j].rule_index
                    /\ KeyRank(cs[i].key) <= KeyRank(cs[j].key)
\* the Replace writes of non-null values to key k among the changes cs
ReplaceWrites(cs, k) ==
    {i \in 1..Len(cs) : cs[i].key = k /\ cs[i].merge_policy = "replace" /\ cs[i].value # None}
\* the write of highest priority, the earliest-declared rule among equals
Strongest(cs, ws) ==
    CHOOSE i \in ws : \A j \in ws \ {i} :
        \/ cs[i].priority > cs[j].priority
        \/ cs[i].priority = cs[j].priority /\ cs[i].rule_index < cs[j].rule_index
Contested(k) ==
    /\ iter_start.st[k] = None
    /\ Cardinality(ReplaceWrites(IterationChanges, k)) >= 2

\* C26: the changes of an iteration are applied by priority descending, then
\* rule declaration index ascending, then key ascending; and a key unset when
\* the iteration began, target of several Replace writes of non-null values,
\* ends the iteration with the value of the highest-priority write, the
\* earliest-declared rule winning among equal priorities.
C26_HighestPriorityWriteWins ==
    IterationApplied =>
        /\ AppliedInOrder(IterationChanges)
        /\ \A k \in Keys :
              Contested(k) =>
                 new_state[k] = IterationChanges[Strongest(IterationChanges,
                                    ReplaceWrites(IterationChanges, k))].value

(***************************************************************************)
(* Properties of the validation of well-formed operations                  *)
(***************************************************************************)
\* the structure type an operator's using must name
RequiredType(op) == IF op = "join" THEN "hashmap" ELSE "set"
\* the source is inline data, or names an existing structure of the type the
\* operator needs
ValidSource(step, reg) ==
    IF step.config.using # Missing
    THEN /\ Usable(step, reg)
         /\ registry_get(reg, step.config.using.s).type = RequiredType(step.op)
    ELSE step.config.with # Missing
\* Join(on_field, source), ExistsIn(field, source), NotExistsIn(field, source),
\* Union(source), Difference(source)
NamesRequired(step, reg) ==
    CASE step.op = "join" ->
           /\ step.config.on # Missing
           /\ (step.config.using # Missing /\ ValidSource(step, reg))
                 => step.config.on.s = registry_get(reg, step.config.using.s).key_field
      [] step.op \in {"exists_in", "not_exists_in"} -> step.config.field # Missing
      [] OTHER -> TRUE
WellFormed(step, reg) == ValidSource(step, reg) /\ NamesRequired(step, reg)

\* C27: validate_ra_operation returns no error for an operation that names
\* its required parameters and a valid source.
C27_WellFormedHasNoError ==
    \A e \in Evaluations :
        (ev_errors[e] # NoCall /\ WellFormed(ev_step[e], registry))
          => ev_errors[e].value = <<>>

(***************************************************************************)
(* Properties of select against the rule-condition evaluator               *)
(***************************************************************************)
SelectRows == normalize_records(q_op.data)
BothEvaluated == q_op.op = "select" /\ q_out["select"] # NoCall /\ q_out["condition"] # NoCall
\* the records on which the compiled condition is truthy, in the order of
\* the data
Holding ==
    SelectSeq([i \in 1..Len(SelectRows) |->
                  [record |-> SelectRows[i], value |-> q_out["condition"].value[i]]],
              LAMBDA e : py_truthy(e.value))
\* what select returns when it keeps exactly those: a list of them, or for a
\* single record the record itself or the empty record
KeepsHolding ==
    LET kept == [i \in 1..Len(Holding) |-> Holding[i].record]
    IN IF isinstance_dict(q_op.data)
       THEN IF kept = <<>> THEN JDict(<<>>) ELSE q_op.data
       ELSE JList(kept)

\* C28: select keeps a record exactly when parse_condition_to_ast followed
\* by evaluate_ast gives a truthy value for the predicate on that record, and
\* select does not return a result for a predicate the condition compiler
\* rejects.
C28_SelectIsRuleCondition ==
    BothEvaluated =>
        IF q_out["condition"].status = "raised" THEN q_out["select"].status = "raised"
        ELSE q_out["select"] = Return(KeepsHolding)

(***************************************************************************)
(* Properties of a step that names several operators                       *)
(***************************************************************************)
\* what a run gave: the payload it returned, or the failure it raised
Outcome(r) == IF r.out.status = "ok" THEN r.out.value.payload ELSE r.out

\* C29: the operators a step names are applied in one order, the same in
\* every run, so that two runs of the step on the same input give the same
\* output.
C29_OneOrderEveryRun ==
    \A i, j \in 1..Len(ms_runs) :
        /\ ms_runs[i].order = ms_runs[j].order
        /\ Outcome(ms_runs[i]) = Outcome(ms_runs[j])

\* an operation as it applies with the registry at hand
applied_operation(data, operation, reg) ==
    IF reg.present /\ refers_to_structure(operation)
           /\ operation.op \in Range(EnhancedOrder)
    THEN enhanced_with_structure(data, operation, reg).out
    ELSE apply_ra_operation(data, operation)
\* the data after every operation of a list has been applied, in order
RECURSIVE AllApplied(_, _, _)
AllApplied(data, operations, reg) ==
    IF operations = <<>> THEN Return(data)
    ELSE LET current_data == applied_operation(data, Head(operations), reg)
         IN IF current_data.status = "raised" THEN current_data
            ELSE AllApplied(current_data.value, Tail(operations), reg)
AsPayload(current_data) ==
    IF isinstance_dict(current_data) THEN current_data
    ELSE JDict(<<Pair("data", current_data)>>)
Faithful(returned) ==
    LET applied == AllApplied(ms_data, returned._pipe_audit.ra_audit.ra_operations, ms_registry)
    IN /\ applied.status = "ok"
       /\ returned.payload = AsPayload(applied.value)

\* C30: the data a run returns is the input with every operation of its
\* ra_audit applied; a step that names an operator with using next to other
\* operators returns the data with all of them applied.
C30_AuditedOperationsApplied ==
    \A i \in 1..Len(ms_runs) :
        ms_runs[i].out.status = "ok" => Faithful(ms_runs[i].out.value)

====
